---- MODULE Spec2Model ----
(***************************************************************************)
(* State-machine model of sync-assignments.mjs (class AssignmentSync):     *)
(* credential validation and refresh, the paginated listing fetch, and the *)
(* stages of run() that follow it.                                         *)
(*                                                                         *)
(* Encodings                                                               *)
(*   token    a sequence of characters; <<>> stands for an unset or empty  *)
(*            AUI_TOKEN.  The character "." separates the JWT parts.  A    *)
(*            part decodes (base64 + JSON.parse) by the code book of       *)
(*            DecodePayload: "n" is the JSON value null, "o" an object     *)
(*            without exp, a digit d an object with exp = d, anything else *)
(*            is not JSON.                                                 *)
(*   now      wall-clock time in seconds (Math.floor(Date.now()/1000)).    *)
(*   url      [set, parsable, params]: params is the query string as a     *)
(*            sequence of [name, value] pairs (URLSearchParams).           *)
(***************************************************************************)
EXTENDS Integers, Sequences, FiniteSets, TLC

VARIABLES
    argv,        \* process.argv.slice(2)
    env,         \* process.env: CI, GITHUB_ACTIONS, AUI_AUTO_REFRESH
    procToken,   \* process.env.AUI_TOKEN
    dotenv,      \* the AUI_TOKEN line of the .env file: [exists, token]
    auiUrl,      \* process.env.AUI_URL
    now,         \* current time, seconds
    pc,          \* position of run()
    exitCode,    \* process exit status, -1 while running
    extractor,   \* the simple-edge-extractor.mjs child: idle, running, exited, error
    extCode,     \* exit code of the child, -1 if none yet
    launches,    \* number of spawn() calls
    validated,   \* tokens for which validateToken returned true in this run
    requests,    \* log of HTTP requests issued, oldest first
    server,      \* the listing endpoint's chain of pages
    nextUrl,     \* fetchAllAssignments: nextUrl
    allItems,    \* fetchAllAssignments: allItems
    classMembers,\* this.classMembers: group ids with a memoized roster
    normalized,  \* run(): normalizedAssignments
    files,       \* export files written by this run
    state,       \* this.state
    persisted,   \* content of state.json
    tokOut,      \* result of a stand-alone validateToken call
    filtered,    \* run(): filteredAssignments
    history,     \* the runs made one after the other over one state.json
    outputs,     \* the files under outputs/: path |-> the items written to it
    remote,      \* the Notion database: the pages of its query result
    upload,      \* uploadToNotion: its locals and the calls it has made
    clock        \* Date.now() in the unit of the rate limiter, counted in
                 \* each run from ClockStart

vars == <<argv, env, procToken, dotenv, auiUrl, now, pc, exitCode, extractor,
          extCode, launches, validated, requests, server, nextUrl, allItems,
          classMembers, normalized, files, state, persisted, tokOut,
          filtered, history,
          outputs, remote, upload, clock>>

----------------------------------------------------------------------------
(* Bounds *)

MaxNow == 2
MaxTokenLen == 5
MaxPages == 2
MaxPageItems == 2
MonthLen == 2
MonthsPerYear == 2
MaxLate == 1
MaxDuration == 2

----------------------------------------------------------------------------
(* Credential validation *)

TokenChars == {".", "h", "n", "o", "1", "2"}

Digits == {"0", "1", "2", "3"}

DigitVal(c) == CASE c = "0" -> 0 [] c = "1" -> 1 [] c = "2" -> 2 [] c = "3" -> 3

\* token.split('.')
RECURSIVE Split(_)
Split(s) ==
    IF \A i \in 1..Len(s) : s[i] # "."
    THEN <<s>>
    ELSE LET i == CHOOSE k \in 1..Len(s) :
                      s[k] = "." /\ \A j \in 1..(k - 1) : s[j] # "."
         IN  <<SubSeq(s, 1, i - 1)>> \o Split(SubSeq(s, i + 1, Len(s)))

\* JSON.parse(Buffer.from(part, 'base64').toString())
DecodePayload(part) ==
    IF part = <<"n">> THEN [kind |-> "null", hasExp |-> FALSE, exp |-> 0]
    ELSE IF part = <<"o">> THEN [kind |-> "object", hasExp |-> FALSE, exp |-> 0]
    ELSE IF Len(part) = 1 /\ part[1] \in Digits
         THEN [kind |-> "object", hasExp |-> TRUE, exp |-> DigitVal(part[1])]
    ELSE [kind |-> "throws", hasExp |-> FALSE, exp |-> 0]

validateTokenLax(token, t) ==
    IF token = <<>> THEN FALSE
    ELSE LET parts == Split(token) IN
         IF Len(parts) # 3 THEN FALSE
         ELSE LET payload == DecodePayload(parts[2]) IN
              IF payload.kind # "object" THEN FALSE
              ELSE payload.hasExp /\ payload.exp # 0 /\ payload.exp >= t

validateToken(token, t) ==
    IF token = <<>> THEN FALSE
    ELSE LET parts == Split(token) IN
         IF Len(parts) # 3 THEN FALSE
         ELSE LET payload == DecodePayload(parts[2]) IN
              \* JSON.parse throws, or payload.exp on null throws: caught
              IF payload.kind # "object" THEN FALSE
              ELSE payload.hasExp /\ payload.exp # 0 /\ payload.exp > t

----------------------------------------------------------------------------
(* Configuration: .env, command line, persisted state *)

\* loadEnv(override), for the AUI_TOKEN key: cur is process.env.AUI_TOKEN,
\* file the .env line
loadEnvKeep(cur, file, override) ==
    IF file.exists /\ cur = <<>> THEN file.token ELSE cur

loadEnv(cur, file, override) ==
    IF file.exists /\ (override \/ cur = <<>>) THEN file.token ELSE cur

RefreshFlag == [name |-> "--refresh-tokens", value |-> <<>>]
IncrementalFlag == [name |-> "--incremental", value |-> <<>>]
\* --details=c1:a1 and --details=c1: value is the argument split at ':'
DetailsGood == [name |-> "--details=", value |-> <<"c1", "a1">>]
DetailsBad == [name |-> "--details=", value |-> <<"c1">>]

AllFlags == <<RefreshFlag, IncrementalFlag, DetailsGood, DetailsBad>>

RECURSIVE PickFlags(_, _)
PickFlags(S, i) ==
    IF i > Len(AllFlags) THEN <<>>
    ELSE (IF i \in S THEN <<AllFlags[i]>> ELSE <<>>) \o PickFlags(S, i + 1)

\* the command lines considered: every sub-sequence of AllFlags
ArgvPool == {PickFlags(S, 1) : S \in SUBSET (1..Len(AllFlags))}

HasFlag(av, n) == \E i \in 1..Len(av) : av[i].name = n

\* a date that is absent: null for an option, '' for a field of an item
NoDate == -1

\* arg.split('=')[1] of the last argument that starts with n, none without one
LastValue(av, n, none) ==
    IF HasFlag(av, n)
    THEN av[CHOOSE i \in 1..Len(av) :
                /\ av[i].name = n
                /\ \A j \in (i + 1)..Len(av) : av[j].name # n].value[1]
    ELSE none

\* arg.split('=')[1] of every argument that starts with n, in order
RECURSIVE Values(_, _)
Values(av, n) ==
    IF av = <<>> THEN <<>>
    ELSE (IF Head(av).name = n THEN <<Head(av).value[1]>> ELSE <<>>)
             \o Values(Tail(av), n)

parseArgs(av) ==
    LET incremental == HasFlag(av, "--incremental")
        full == HasFlag(av, "--full")
    IN  [dueBefore |-> LastValue(av, "--due-before=", NoDate),
         dueAfter |-> LastValue(av, "--due-after=", NoDate),
         statuses |-> Values(av, "--status="),
         classIds |-> Values(av, "--class-id="),
         incomplete |-> HasFlag(av, "--incomplete"),
         overdue |-> HasFlag(av, "--overdue"),
         refreshTokens |-> HasFlag(av, "--refresh-tokens"),
         incremental |-> incremental,
         full |-> full \/ (~incremental /\ ~full),
         \* the last --details= wins; <<>> is null
         details |-> IF HasFlag(av, "--details=")
                     THEN av[CHOOSE i \in 1..Len(av) :
                                 /\ av[i].name = "--details="
                                 /\ \A j \in (i + 1)..Len(av) : av[j].name # "--details="].value
                     ELSE <<>>]

\* A value of this.state. shape tells what JSON.parse gave: "ok" an object
\* with a seenIds array, "noSeenIds" an object without that key, "null" the
\* value null; seenIds is read only when shape is "ok"
DefaultState == [shape |-> "ok", lastRun |-> -1, seenIds |-> <<>>]

\* loadState(): JSON.parse of the file as it is, or the default when reading
\* or parsing throws. file.readable is FALSE for a missing file and for
\* text that is not JSON
loadState(file) == IF file.readable THEN file.content ELSE DefaultState

----------------------------------------------------------------------------
(* Credential refresh *)

isCiOnlyCI(e) == e.CI = "true"

isCi(e) == e.CI = "true" \/ e.GITHUB_ACTIONS = "true"

autoRefreshDisabled(e) == e.AUI_AUTO_REFRESH = "0"

shouldAutoRefreshAlways(args, e) == TRUE

shouldAutoRefresh(args, e) ==
    args.refreshTokens \/ (~isCi(e) /\ ~autoRefreshDisabled(e))

needsRefreshAlways(token, t) == TRUE

needsRefreshNever(token, t) == FALSE

\* refreshTokensIfNeeded: !token || !this.validateToken(token)
needsRefresh(token, t) == token = <<>> \/ ~validateToken(token, t)

\* the 'close' handler: resolve on code 0, reject otherwise
extractorResolved(code) == code = 0

tokenRefreshedUnchecked(token, t) == TRUE

\* refreshTokensIfNeeded after loadEnv(true): the reloaded token must validate
tokenRefreshed(token, t) == validateToken(token, t)

Validated(token, t) ==
    IF validateToken(token, t) THEN validated \cup {token} ELSE validated

Exit(code) ==
    /\ pc' = "exited"
    /\ exitCode' = code

----------------------------------------------------------------------------
(* Listing URL and pagination *)

\* value of a $filter parameter: 'dueDateTime <op> <arg>'
Filter(op, arg) == [op |-> op, arg |-> arg]

Param(n, v) == [name |-> n, value |-> v]

NoUrl == [set |-> FALSE, parsable |-> FALSE, params |-> <<>>]

Url(parsable, params) == [set |-> TRUE, parsable |-> parsable, params |-> params]

\* new Date(Date.UTC(year, month, 1, 0, 0, 0, 0)): the first instant of the
\* month that contains t, in a calendar whose months last MonthLen seconds
monthStart(t) == t - (t % MonthLen)

\* URLSearchParams.delete(name): removes every pair of that name
searchParamsDelete(params, n) == SelectSeq(params, LAMBDA p : p.name # n)

\* URLSearchParams.set(name, value): overwrites the first pair of that name
\* and removes the others, or appends a pair
searchParamsSet(params, n, v) ==
    IF \E i \in 1..Len(params) : params[i].name = n
    THEN LET first == CHOOSE i \in 1..Len(params) :
                          /\ params[i].name = n
                          /\ \A j \in 1..(i - 1) : params[j].name # n
         IN  SubSeq(params, 1, first - 1) \o <<Param(n, v)>>
                 \o searchParamsDelete(SubSeq(params, first + 1, Len(params)), n)
    ELSE Append(params, Param(n, v))

applyMonthFilterAppendOnly(url, t) ==
    IF url.parsable
    THEN Url(TRUE, Append(url.params, Param("$filter", Filter("ge", monthStart(t)))))
    ELSE url

\* fetchAllAssignments, the try block that rewrites the URL; an unparsable
\* URL is left as it is
applyMonthFilter(url, t) ==
    IF url.parsable
    THEN Url(TRUE, searchParamsSet(searchParamsDelete(url.params, "$filter"),
                                   "$filter", Filter("ge", monthStart(t))))
    ELSE url

\* a raw record of the listing: id and classId are 0 when absent, instr tells
\* whether instructions.content holds text; content is a sequence of
\* characters, <<>> when instructions or its content is missing; createdBy
\* is createdBy.user.id, "" when missing
Raw(id, classId, instr) ==
    [id |-> id, classId |-> classId,
     content |-> IF instr THEN <<"a">> ELSE <<>>, createdBy |-> "",
     dueDateTime |-> 1,
     status |-> "assigned", allTurnedIn |-> FALSE, anySubmittedState |-> FALSE]

RawPool == {Raw(1, 1, TRUE), Raw(2, 1, FALSE)}

Page(isArray, value, hasNext) ==
    [isArray |-> isArray, value |-> value, hasNext |-> hasNext]

NoNext == [kind |-> "none", url |-> NoUrl, page |-> 0]

\* one entry of the request log: what was sent, how it ended, and the
\* credential, child state and time at which it was sent
Request(kind, url, page, outcome) ==
    [kind |-> kind, url |-> url, page |-> page, outcome |-> outcome,
     token |-> procToken, vouched |-> procToken \in validated,
     ext |-> extractor, t |-> now]

\* outcomes of one HTTP exchange
Outcomes == {"200", "401", "403", "500", "neterr", "badjson"}

fetchWithAuthLenient(outcome, allowFailure) ==
    IF outcome \in {"200", "403"} THEN "json"
    ELSE IF allowFailure THEN "throw" ELSE "exit"

fetchWithAuthStrict(outcome, allowFailure) ==
    IF outcome = "200" THEN "json" ELSE "exit"

\* fetchWithAuth: "json" when the parsed body is returned, "throw" when the
\* error reaches the caller, "exit" when process.exit(1) is called
fetchWithAuth(outcome, allowFailure) ==
    IF outcome = "200" THEN "json"
    ELSE IF allowFailure THEN "throw" ELSE "exit"

appendPageSkipFirst(items, page) ==
    IF page.isArray /\ page.value # <<>> THEN items \o Tail(page.value) ELSE items

\* if (data.value && Array.isArray(data.value)) allItems.push(...data.value)
appendPage(items, page) ==
    IF page.isArray THEN items \o page.value ELSE items

----------------------------------------------------------------------------
(* Later stages of run() *)

\* The fields of a canonical record that the later stages read. dueDate is
\* iso(raw.dueDateTime): an instant, or NoDate for ''
Item(id, classId, dueDate, status, allTurnedIn, anySubmittedState, hasDescription) ==
    [id |-> id, classId |-> classId, dueDate |-> dueDate, status |-> status,
     allTurnedIn |-> allTurnedIn, anySubmittedState |-> anySubmittedState,
     hasDescription |-> hasDescription]

\* a raw dueDateTime that new Date() cannot read
Unparsable == -2

\* iso(s): the instant of a date that parses, '' for a missing or unreadable
\* one
iso(s) == IF s = NoDate \/ s = Unparsable THEN NoDate ELSE s

\* parseIsoOrNull(s): null (NoDate) for a missing or unreadable date
parseIsoOrNull(s) == IF s = NoDate \/ s = Unparsable THEN NoDate ELSE s

\* --due-before=someday and --due-after=someday
DueBeforeBad == [name |-> "--due-before=", value |-> <<Unparsable>>]
DueAfterBad == [name |-> "--due-after=", value |-> <<Unparsable>>]

\* the command lines with a date bound that does not parse
BadDateArgvPool == {<<DueBeforeBad>>, <<RefreshFlag, DueAfterBad>>}

\* parseArgs() ends the process with status 1: a date bound was given and
\* does not parse
parseArgsExits(av) ==
    LET args == parseArgs(av) IN
    \/ args.dueBefore # NoDate /\ parseIsoOrNull(args.dueBefore) = NoDate
    \/ args.dueAfter # NoDate /\ parseIsoOrNull(args.dueAfter) = NoDate

\* the record normalizeAssignment returns for raw
Canonical(raw, hasDescription) ==
    Item(raw.id, raw.classId, iso(raw.dueDateTime), raw.status, raw.allTurnedIn,
         raw.anySubmittedState, hasDescription)

Includes(seq, x) == \E i \in 1..Len(seq) : seq[i] = x

\* content.replace(/<[^>]*>/g, ''): from left to right, a '<' that has a '>'
\* after it is removed together with everything up to the first such '>'
RECURSIVE stripTags(_)
stripTags(s) ==
    IF s = <<>> THEN <<>>
    ELSE IF Head(s) = "<" /\ \E j \in 2..Len(s) : s[j] = ">"
         THEN LET j == CHOOSE j \in 2..Len(s) :
                           s[j] = ">" /\ \A k \in 2..(j - 1) : s[k] # ">"
              IN  stripTags(SubSeq(s, j + 1, Len(s)))
         ELSE <<Head(s)>> \o stripTags(Tail(s))

\* String.prototype.trim, with " " for every kind of white space
RECURSIVE trimStart(_)
trimStart(s) == IF s # <<>> /\ Head(s) = " " THEN trimStart(Tail(s)) ELSE s

RECURSIVE trimEnd(_)
trimEnd(s) ==
    IF s # <<>> /\ s[Len(s)] = " " THEN trimEnd(SubSeq(s, 1, Len(s) - 1)) ELSE s

trim(s) == trimEnd(trimStart(s))

\* the description normalizeAssignment takes from an instructions.content
extractDescription(content) == trim(stripTags(content))

\* one entry of the members reply, and the person fetchClassMembers keeps
Person(id, displayName, email, role) ==
    [id |-> id, displayName |-> displayName, email |-> email, role |-> role]

RECURSIVE withRole(_, _)
withRole(value, role) ==
    IF value = <<>> THEN <<>>
    ELSE (IF Head(value).role = role THEN <<Head(value)>> ELSE <<>>)
             \o withRole(Tail(value), role)

\* the members object fetchClassMembers builds from data.value; byId keeps
\* the last entry of each id
membersOf(value) ==
    [teachers |-> withRole(value, "teacher"),
     students |-> withRole(value, "student"),
     byId |-> [id \in {value[i].id : i \in 1..Len(value)} |->
                  value[CHOOSE i \in 1..Len(value) :
                            /\ value[i].id = id
                            /\ \A j \in (i + 1)..Len(value) : value[j].id # id]]]

EmptyMembers == membersOf(<<>>)

\* this.classMembers before the first lookup
NoMembers == [c \in {} |-> EmptyMembers]

\* data.value of the members reply of each group, <<>> also for a reply
\* without a value array
ClassRoster(classId) ==
    CASE classId = 1 -> <<Person("t1", "Ann", "ann@x", "teacher"),
                          Person("t2", "", "bob@x", "teacher"),
                          Person("t3", "Cy", "cy@x", "teacher"),
                          Person("s1", "Sam", "sam@x", "student"),
                          Person("o1", "Own", "own@x", "owner")>>
      [] classId = 2 -> <<Person("s1", "Sam", "sam@x", "student"),
                          Person("s2", "Sue", "", "student")>>
      [] OTHER -> <<>>

\* instructions.content of the detail reply of each item
DetailContent(id) ==
    CASE id = 1 -> <<"<", "a", ">", " ">>
      [] id = 2 -> <<" ", "<", "a", ">", "a", "a", " ", "a">>
      [] OTHER -> <<>>

\* fetchClassMembers after the memo lookup missed: the members object it
\* returns for the outcome of the request
fetchClassMembers(classId, outcome) ==
    IF fetchWithAuth(outcome, TRUE) = "json"
    THEN membersOf(ClassRoster(classId))
    ELSE EmptyMembers

\* this.classMembers.set(classId, members), in the try and in the catch
memoizeOnSuccess(cm, classId, members, outcome) ==
    IF outcome = "200" THEN (classId :> members) @@ cm ELSE cm

memoize(cm, classId, members, outcome) == (classId :> members) @@ cm

\* teacherName, teacherEmail and studentCount of normalizeAssignment
teacherOf(raw, members) ==
    LET byCreator ==
            IF /\ raw.createdBy # ""
               /\ raw.createdBy \in DOMAIN members.byId
               /\ members.byId[raw.createdBy].role = "teacher"
            THEN [teacherName |-> members.byId[raw.createdBy].displayName,
                  teacherEmail |-> members.byId[raw.createdBy].email]
            ELSE [teacherName |-> "", teacherEmail |-> ""]
        resolved ==
            IF byCreator.teacherName = "" /\ members.teachers # <<>>
            THEN [teacherName |-> members.teachers[1].displayName,
                  teacherEmail |-> members.teachers[1].email]
            ELSE byCreator
    IN  [teacherName |-> resolved.teacherName,
         teacherEmail |-> resolved.teacherEmail,
         studentCount |-> Len(members.students)]

\* the condition of the detail fallback
needsDetailAlways(raw, description) == TRUE

needsDetail(raw, description) ==
    description = <<>> /\ raw.classId # 0 /\ raw.id # 0

fetchDetailedAssignmentAnyStatus(id, outcome) == DetailContent(id)

\* fetchDetailedAssignment: instructions.content of the parsed reply, <<>>
\* for the null it returns after a failure
fetchDetailedAssignment(id, outcome) ==
    IF outcome = "200" THEN DetailContent(id) ELSE <<>>

\* normalizeAssignment(raw) from the roster of the record's group (the
\* empty one without a group id) and what the detail fallback obtained
normalizeAssignment(raw, members, detailContent) ==
    LET fromListing == extractDescription(raw.content)
        description == IF needsDetail(raw, fromListing) /\ detailContent # <<>>
                       THEN extractDescription(detailContent)
                       ELSE fromListing
    IN  [description |-> description] @@ teacherOf(raw, members)
           @@ Canonical(raw, description # <<>>)

\* The tests of applyFilters, one operator per if statement: TRUE when the
\* statement returns false for the item
dueBeforeExcludesInclusive(item, args) ==
    args.dueBefore # NoDate /\ item.dueDate # NoDate /\ item.dueDate >= args.dueBefore

dueBeforeExcludes(item, args) ==
    args.dueBefore # NoDate /\ item.dueDate # NoDate /\ item.dueDate > args.dueBefore

dueAfterExcludes(item, args) ==
    args.dueAfter # NoDate /\ item.dueDate # NoDate /\ item.dueDate < args.dueAfter

statusExcludesEmpty(item, args) == ~Includes(args.statuses, item.status)

statusExcludes(item, args) ==
    Len(args.statuses) > 0 /\ ~Includes(args.statuses, item.status)

classExcludes(item, args) ==
    Len(args.classIds) > 0 /\ ~Includes(args.classIds, item.classId)

incompleteExcludesTurnedIn(item, args) == args.incomplete /\ item.allTurnedIn

incompleteExcludes(item, args) ==
    args.incomplete /\ (item.allTurnedIn /\ item.anySubmittedState)

overdueExcludesLate(item, args, t) ==
    args.overdue /\ (item.dueDate = NoDate \/ item.dueDate > t)

\* t is new Date() at the test
overdueExcludes(item, args, t) ==
    args.overdue /\ (item.dueDate = NoDate \/ item.dueDate >= t)

\* the item reaches the last test of the callback
reachesIncremental(item, args, t) ==
    ~(\/ dueBeforeExcludes(item, args)
      \/ dueAfterExcludes(item, args)
      \/ statusExcludes(item, args)
      \/ classExcludes(item, args)
      \/ incompleteExcludes(item, args)
      \/ overdueExcludes(item, args, t))

incrementalExcludesNone(item, args, st) == FALSE

incrementalExcludes(item, args, st) ==
    args.incremental /\ Includes(st.seenIds, item.id)

\* this.state.seenIds.includes throws a TypeError when this.state is null or
\* has no seenIds: it is evaluated for an item that reaches the last test of
\* a run with --incremental
filterThrows(items, args, st, t) ==
    /\ args.incremental
    /\ st.shape # "ok"
    /\ \E i \in 1..Len(items) : reachesIncremental(items[i], args, t)

\* applyFilters(items) when it returns: the callback's early returns in the
\* order of the code
applyFilters(items, args, st, t) ==
    SelectSeq(items, LAMBDA item :
        IF dueBeforeExcludes(item, args) THEN FALSE
        ELSE IF dueAfterExcludes(item, args) THEN FALSE
        ELSE IF statusExcludes(item, args) THEN FALSE
        ELSE IF classExcludes(item, args) THEN FALSE
        ELSE IF incompleteExcludes(item, args) THEN FALSE
        ELSE IF overdueExcludes(item, args, t) THEN FALSE
        ELSE IF incrementalExcludes(item, args, st) THEN FALSE
        ELSE TRUE)

Ids(items) == [i \in 1..Len(items) |-> items[i].id]

\* updateState throws a TypeError: an assignment to a property of null, or
\* seenIds.includes / seenIds.push on an object without seenIds
updateThrows(st, args) ==
    \/ st.shape = "null"
    \/ st.shape = "noSeenIds" /\ ~args.full /\ args.incremental

updateStateUnion(st, args, processedIds, t) ==
    [shape |-> "ok", lastRun |-> t,
     seenIds |-> st.seenIds \o SelectSeq(processedIds, LAMBDA id :
                     ~Includes(st.seenIds, id))]

\* updateState(processedIds) when it returns: the new this.state
updateState(st, args, processedIds, t) ==
    [shape |-> "ok", lastRun |-> t,
     seenIds |-> IF args.full THEN processedIds
                 ELSE IF args.incremental
                 THEN st.seenIds \o SelectSeq(processedIds, LAMBDA id :
                          ~Includes(st.seenIds, id))
                 ELSE st.seenIds]

\* saveState(): state.json after the write
saveState(st) == [readable |-> TRUE, content |-> st]

\* the files run() writes for the filtered items, in the order of the writes
ExportOrder == <<"assignments.json", "assignments.xlsx", "notion_payload.json">>

ExportNames == {ExportOrder[i] : i \in 1..Len(ExportOrder)}

\* A file under outputs/: dir is "top" for outputs/<name>, "by-year" for
\* outputs/by-year/<year>/<name>, "by-month" for
\* outputs/by-month/<year>/<month>/<name>; a part that the path does not
\* have is -1
Path(dir, year, month, name) ==
    [dir |-> dir, year |-> year, month |-> month, name |-> name]

TopPath(name) == Path("top", -1, -1, name)

NoOutputs == [p \in {} |-> <<>>]

\* dueDate.getFullYear() and the month of dueDate.toLocaleDateString, for a
\* calendar of MonthsPerYear months of MonthLen instants
yearOf(d) == d \div (MonthLen * MonthsPerYear)

monthOf(d) == (d % (MonthLen * MonthsPerYear)) \div MonthLen

\* the forEach callback of writeOrganizedFiles goes on for the item
hasDue(item) == item.dueDate # NoDate

\* byYear.get(y)
yearItems(items, y) ==
    SelectSeq(items, LAMBDA item : hasDue(item) /\ yearOf(item.dueDate) = y)

monthItemsAnyYear(items, y, m) ==
    SelectSeq(items, LAMBDA item : hasDue(item) /\ monthOf(item.dueDate) = m)

\* byMonth.get(`${y}/${m}`)
monthItems(items, y, m) ==
    SelectSeq(items, LAMBDA item :
        hasDue(item) /\ yearOf(item.dueDate) = y /\ monthOf(item.dueDate) = m)

\* writeOrganizedFiles(items, format): the files it writes, name being
\* assignments.json or assignments.csv by the format
writeOrganizedFiles(items, name) ==
    LET dated == {items[i].dueDate : i \in {j \in 1..Len(items) : hasDue(items[j])}}
        paths == {Path("by-year", yearOf(d), -1, name) : d \in dated}
                     \cup {Path("by-month", yearOf(d), monthOf(d), name) : d \in dated}
    IN  [p \in paths |-> IF p.dir = "by-year" THEN yearItems(items, p.year)
                         ELSE monthItems(items, p.year, p.month)]

writeJsonFile(items) ==
    (TopPath("assignments.json") :> items)
        @@ writeOrganizedFiles(items, "assignments.json")

writeXlsxFileTopOnly(items) ==
    (TopPath("assignments.xlsx") :> items) @@ (TopPath("assignments.csv") :> items)

\* the workbook, the flat CSV file and the organized CSV files
writeXlsxFile(items) ==
    (TopPath("assignments.xlsx") :> items) @@ (TopPath("assignments.csv") :> items)
        @@ writeOrganizedFiles(items, "assignments.csv")

\* substring(0, 2000) of the Notes property, 2000 characters taken as 2
DescriptionCap == 2

\* the payload entry of an item: the record with its description cut to the
\* cap
notionPage(item) ==
    [item EXCEPT !.description =
        SubSeq(@, 1, IF Len(@) < DescriptionCap THEN Len(@) ELSE DescriptionCap)]

\* one payload entry per item, in the order of the items
writeNotionPayload(items) ==
    (TopPath("notion_payload.json") :> [i \in 1..Len(items) |-> notionPage(items[i])])

\* outputs/ after the first k writes of run() for items; a write replaces
\* the file of the same path and leaves the other files
RECURSIVE written(_, _, _)
written(old, items, k) ==
    IF k = 0 THEN old
    ELSE (CASE k = 1 -> writeJsonFile(items)
            [] k = 2 -> writeXlsxFile(items)
            [] OTHER -> writeNotionPayload(items))
             @@ written(old, items, k - 1)

\* createRateLimiter(300): the delay, 300 ms taken as 2 units of clock
DelayMs == 2

\* Date.now() when the run starts: ahead of the limiter's first lastCall (0)
\* by the delay or more
ClockStart == DelayMs

\* process.env.NOTION_TOKEN and NOTION_DATABASE_ID as uploadToNotion reads
\* them; "" is unset
NotionEnvPool == [NOTION_TOKEN : {"", "secret"}, NOTION_DATABASE_ID : {"", "db"}]

notionConfiguredEither(cfg) == cfg.NOTION_TOKEN # "" \/ cfg.NOTION_DATABASE_ID # ""

\* the negation of (!NOTION_TOKEN || !NOTION_DATABASE_ID)
notionConfigured(cfg) == cfg.NOTION_TOKEN # "" /\ cfg.NOTION_DATABASE_ID # ""

\* uploadToNotion before it is called
NoUpload ==
    [config |-> [NOTION_TOKEN |-> "", NOTION_DATABASE_ID |-> ""],
     existingIds |-> {}, cursor |-> 1, queries |-> <<>>, newItems |-> <<>>,
     calls |-> <<>>, uploaded |-> 0, failed |-> 0, lastCall |-> 0]

\* A page of the query result is the sequence of the 'Assignment ID' texts
\* of its entries, 0 for an entry whose text is empty or missing. The ids
\* that the forEach of getExistingNotionIds adds for a page:
pageIds(page) == {page[i] : i \in 1..Len(page)} \ {0}

newItemsOfAll(items, existingIds) == items

\* items.filter(item => !existingIds.has(item.id))
newItemsOf(items, existingIds) ==
    SelectSeq(items, LAMBDA item : item.id \notin existingIds)

rateLimiterReleaseAtOnce(t, lastCall, late) == t

\* The limiter called at t: the instant at which it returns and is stored
\* as lastCall. late is the time by which the timer fires after its delay
rateLimiterRelease(t, lastCall, late) ==
    IF t - lastCall < DelayMs THEN t + (DelayMs - (t - lastCall)) + late ELSE t

\* the database after a page for id is created
remoteAfterCreate(pages, id) ==
    IF pages = <<>> THEN <<<<id>>>>
    ELSE [pages EXCEPT ![Len(pages)] = Append(@, id)]

----------------------------------------------------------------------------
(* Initial states *)

TokenPool == {<<>>, <<"h", ".", "2", ".", "h">>, <<"h", ".", "2">>}

DotenvPool == {[exists |-> FALSE, token |-> <<>>]}
                  \cup {[exists |-> TRUE, token |-> t] : t \in TokenPool}

EnvPool == [CI : {"true", ""}, GITHUB_ACTIONS : {"true", ""},
            AUI_AUTO_REFRESH : {"0", ""}]

UserFilter == Param("$filter", Filter("eq", 0))

UrlPool == {NoUrl,
            Url(FALSE, <<UserFilter>>),
            Url(TRUE, <<Param("$top", Filter("lit", 5)), UserFilter>>)}

ChainPool == {<<Page(TRUE, <<Raw(1, 1, TRUE)>>, FALSE)>>,
              <<Page(TRUE, <<Raw(2, 1, FALSE)>>, TRUE),
                Page(TRUE, <<Raw(1, 1, TRUE), Raw(0, 0, FALSE)>>, FALSE)>>}

StoredState == [readable |-> TRUE,
                content |-> [shape |-> "ok", lastRun |-> 0, seenIds |-> <<1>>]]

\* the fields every run starts with, whatever its inputs; the process has
\* ended with status 1 when parseArgs() rejected the command line
InitRun ==
    /\ pc = IF parseArgsExits(argv) THEN "exited" ELSE "start"
    /\ exitCode = IF parseArgsExits(argv) THEN 1 ELSE -1
    /\ extractor = "idle"
    /\ extCode = -1
    /\ launches = 0
    /\ validated = {}
    /\ requests = <<>>
    /\ nextUrl = NoNext
    /\ allItems = <<>>
    /\ classMembers = NoMembers
    /\ normalized = <<>>
    /\ files = {}
    /\ persisted = StoredState
    /\ state = loadState(persisted)
    /\ tokOut = "none"
    /\ filtered = <<>>
    /\ history = <<>>
    /\ outputs = NoOutputs
    /\ remote = <<>>
    /\ upload = NoUpload
    /\ clock = ClockStart

\* after loadEnv(), parseArgs() and loadState() of the constructor
Init ==
    /\ argv \in ArgvPool \cup BadDateArgvPool
    /\ env \in EnvPool
    /\ dotenv \in DotenvPool
    /\ \E shell \in TokenPool : procToken = loadEnv(shell, dotenv, FALSE)
    /\ auiUrl \in UrlPool
    /\ server \in ChainPool
    /\ now = 0
    /\ InitRun

----------------------------------------------------------------------------
(* Environment *)

Tick ==
    /\ pc # "exited"
    /\ now < MaxNow
    /\ now' = now + 1
    /\ UNCHANGED <<argv, env, procToken, dotenv, auiUrl, pc, exitCode, extractor,
                   extCode, launches, validated, requests, server, nextUrl,
                   allItems, classMembers, normalized, files, state, persisted,
                   tokOut,
                   filtered, history,
                   outputs, remote, upload, clock>>

\* the child process rewrites the AUI_TOKEN line of .env
ExtractorWrites ==
    /\ pc = "extractor"
    /\ extractor = "running"
    /\ \E t \in TokenPool : dotenv' = [exists |-> TRUE, token |-> t]
    /\ dotenv' # dotenv
    /\ UNCHANGED <<argv, env, procToken, auiUrl, now, pc, exitCode, extractor,
                   extCode, launches, validated, requests, server, nextUrl,
                   allItems, classMembers, normalized, files, state, persisted,
                   tokOut,
                   filtered, history,
                   outputs, remote, upload, clock>>

----------------------------------------------------------------------------
(* run(): credential step *)

\* run() up to the first await: either the child is spawned, or the
\* credential step is decided at once
RunStart ==
    /\ pc = "start"
    /\ LET args == parseArgs(argv) IN
       IF shouldAutoRefresh(args, env)
       THEN IF needsRefresh(procToken, now)
            THEN /\ pc' = "extractor"
                 /\ extractor' = "running"
                 /\ launches' = launches + 1
                 /\ UNCHANGED exitCode
            ELSE /\ pc' = "authed"
                 /\ UNCHANGED <<exitCode, extractor, launches>>
       ELSE /\ IF validateToken(procToken, now)
               THEN pc' = "authed" /\ UNCHANGED exitCode
               ELSE Exit(1)
            /\ UNCHANGED <<extractor, launches>>
    /\ validated' = Validated(procToken, now)
    /\ UNCHANGED <<argv, env, procToken, dotenv, auiUrl, now, extCode, requests,
                   server, nextUrl, allItems, classMembers, normalized, files,
                   state, persisted, tokOut,
                   filtered, history,
                   outputs, remote, upload, clock>>

\* the child's 'close' event, then loadEnv(true) and the second validation
ExtractorClose ==
    /\ pc = "extractor"
    /\ extractor = "running"
    /\ \E code \in {0, 1} :
          /\ extCode' = code
          /\ extractor' = "exited"
          /\ IF extractorResolved(code)
             THEN /\ procToken' = loadEnv(procToken, dotenv, TRUE)
                  /\ validated' = Validated(procToken', now)
                  /\ IF tokenRefreshed(procToken', now)
                     THEN pc' = "authed" /\ UNCHANGED exitCode
                     ELSE Exit(1)
             ELSE /\ Exit(1)
                  /\ UNCHANGED <<procToken, validated>>
    /\ UNCHANGED <<argv, env, dotenv, auiUrl, now, launches, requests, server,
                   nextUrl, allItems, classMembers, normalized, files, state,
                   persisted, tokOut,
                   filtered, history,
                   outputs, remote, upload, clock>>

\* the child's 'error' event (spawn failed): the promise rejects
ExtractorError ==
    /\ pc = "extractor"
    /\ extractor = "running"
    /\ extractor' = "error"
    /\ Exit(1)
    /\ UNCHANGED <<argv, env, procToken, dotenv, auiUrl, now, extCode, launches,
                   validated, requests, server, nextUrl, allItems, classMembers,
                   normalized, files, state, persisted, tokOut,
                   filtered, history,
                   outputs, remote, upload, clock>>

----------------------------------------------------------------------------
(* run(): --details, listing fetch, normalization, export, upload, commit *)

Truthy(details) == details # <<>> /\ details # <<"">>

\* run() with --details: split at ':', fetchAssignmentDetails, write the file
RunDetails ==
    /\ pc = "authed"
    /\ LET details == parseArgs(argv).details IN
       /\ Truthy(details)
       /\ IF details[1] = "" \/ Len(details) < 2 \/ details[2] = ""
             \/ procToken = <<>>
          THEN Exit(1) /\ UNCHANGED <<requests, files>>
          ELSE \E outcome \in Outcomes :
                  /\ requests' = Append(requests,
                                        Request("detail-dump", NoUrl, 0, outcome))
                  /\ IF outcome = "200"
                     THEN Exit(0) /\ files' = files \cup {"assignment-details.json"}
                     ELSE Exit(1) /\ UNCHANGED files
    /\ UNCHANGED <<argv, env, procToken, dotenv, auiUrl, now, extractor, extCode,
                   launches, validated, server, nextUrl, allItems, classMembers,
                   normalized, state, persisted, tokOut,
                   filtered, history,
                   outputs, remote, upload, clock>>

\* fetchAllAssignments up to the loop: configuration checks, URL rewrite
FetchStart ==
    /\ pc = "authed"
    /\ ~Truthy(parseArgs(argv).details)
    /\ IF ~auiUrl.set \/ procToken = <<>>
       THEN Exit(1) /\ UNCHANGED nextUrl
       ELSE /\ pc' = "listing"
            /\ nextUrl' = [kind |-> "first", url |-> applyMonthFilter(auiUrl, now),
                           page |-> 1]
            /\ UNCHANGED exitCode
    /\ UNCHANGED <<argv, env, procToken, dotenv, auiUrl, now, extractor, extCode,
                   launches, validated, requests, server, allItems, classMembers,
                   normalized, files, state, persisted, tokOut,
                   filtered, history,
                   outputs, remote, upload, clock>>

NextLink(k) == Url(TRUE, <<Param("$skiptoken", Filter("lit", k))>>)

\* one round of the while loop: fetchWithAuth(nextUrl), push, follow the link
FetchPage ==
    /\ pc = "listing"
    /\ nextUrl.kind # "none"
    /\ IF ~nextUrl.url.parsable
       THEN \* fetch() rejects the URL before anything is sent
            Exit(1) /\ UNCHANGED <<requests, nextUrl, allItems>>
       ELSE \E outcome \in Outcomes :
               /\ requests' = Append(requests,
                      Request("listing", nextUrl.url, nextUrl.page, outcome))
               /\ IF fetchWithAuth(outcome, FALSE) = "json"
                  THEN LET page == server[nextUrl.page] IN
                       /\ allItems' = appendPage(allItems, page)
                       /\ nextUrl' = IF page.hasNext
                                     THEN [kind |-> "next",
                                           url |-> NextLink(nextUrl.page + 1),
                                           page |-> nextUrl.page + 1]
                                     ELSE NoNext
                       /\ pc' = IF page.hasNext THEN "listing" ELSE "normalize"
                       /\ UNCHANGED exitCode
                  ELSE Exit(1) /\ UNCHANGED <<nextUrl, allItems>>
    /\ UNCHANGED <<argv, env, procToken, dotenv, auiUrl, now, extractor, extCode,
                   launches, validated, server, classMembers, normalized, files,
                   state, persisted, tokOut,
                   filtered, history,
                   outputs, remote, upload, clock>>

\* one round of the for loop of run(): normalizeAssignment(raw) with its
\* roster lookup (fetchClassMembers) and detail fallback, the two requests
\* ending in one of the given outcomes
NormalizeWith(rosterOutcomes, detailOutcomes) ==
    /\ pc = "normalize"
    /\ Len(normalized) < Len(allItems)
    /\ LET raw == allItems[Len(normalized) + 1]
           roster == raw.classId # 0 /\ raw.classId \notin DOMAIN classMembers
           detail == needsDetail(raw, extractDescription(raw.content))
       IN  \E ro \in (IF roster THEN rosterOutcomes ELSE {"none"}) :
              IF roster /\ fetchWithAuth(ro, TRUE) = "exit"
              THEN /\ Exit(1)
                   /\ requests' = Append(requests,
                                         Request("roster", NoUrl, raw.classId, ro))
                   /\ UNCHANGED <<classMembers, normalized>>
              ELSE LET members ==
                           IF raw.classId = 0 THEN EmptyMembers
                           ELSE IF roster THEN fetchClassMembers(raw.classId, ro)
                           ELSE classMembers[raw.classId]
                   IN  /\ classMembers' =
                              IF roster
                              THEN memoize(classMembers, raw.classId, members, ro)
                              ELSE classMembers
                       /\ \E do \in (IF detail THEN detailOutcomes ELSE {"none"}) :
                              /\ requests' = requests
                                    \o (IF roster
                                        THEN <<Request("roster", NoUrl,
                                                       raw.classId, ro)>>
                                        ELSE <<>>)
                                    \o (IF detail
                                        THEN <<Request("detail", NoUrl, raw.id, do)>>
                                        ELSE <<>>)
                              /\ normalized' = Append(normalized,
                                    normalizeAssignment(raw, members,
                                        IF detail
                                        THEN fetchDetailedAssignment(raw.id, do)
                                        ELSE <<>>))
                       /\ UNCHANGED <<pc, exitCode>>
    /\ UNCHANGED <<argv, env, procToken, dotenv, auiUrl, now,
                   extractor, extCode, launches, validated, server, nextUrl,
                   allItems, files, state, persisted, tokOut,
                   filtered, history,
                   outputs, remote, upload, clock>>

NormalizeOne == NormalizeWith({"200", "403"}, {"200", "500"})

ExportFilesSavingState ==
    /\ pc = "normalize"
    /\ Len(normalized) = Len(allItems)
    /\ LET args == parseArgs(argv) IN
       IF filterThrows(normalized, args, state, now)
       THEN Exit(1) /\ UNCHANGED <<filtered, files, outputs, persisted>>
       ELSE /\ filtered' = applyFilters(normalized, args, state, now)
            /\ persisted' = saveState(updateState(state, args, Ids(filtered'), now))
            /\ \E k \in 0..Len(ExportOrder) :
                  /\ files' = files \cup {ExportOrder[i] : i \in 1..k}
                  /\ outputs' = written(outputs, filtered', k)
                  /\ IF k = Len(ExportOrder)
                     THEN pc' = "upload" /\ UNCHANGED exitCode
                     ELSE Exit(1)
    /\ UNCHANGED <<argv, env, procToken, dotenv, auiUrl, now, extractor,
                   extCode, launches, validated, requests, server, nextUrl,
                   allItems, classMembers, normalized, state, tokOut,
                   history,
                   remote, upload, clock>>

ExportFilesFullSet ==
    /\ pc = "normalize"
    /\ Len(normalized) = Len(allItems)
    /\ LET args == parseArgs(argv) IN
       IF filterThrows(normalized, args, state, now)
       THEN Exit(1) /\ UNCHANGED <<filtered, files, outputs>>
       ELSE /\ filtered' = applyFilters(normalized, args, state, now)
            /\ \E k \in 0..Len(ExportOrder) :
                  /\ files' = files \cup {ExportOrder[i] : i \in 1..k}
                  /\ outputs' = written(outputs,
                         applyFilters(normalized, [args EXCEPT !.incremental = FALSE],
                                      state, now), k)
                  /\ IF k = Len(ExportOrder)
                     THEN pc' = "upload" /\ UNCHANGED exitCode
                     ELSE Exit(1)
    /\ UNCHANGED <<argv, env, procToken, dotenv, auiUrl, now, extractor,
                   extCode, launches, validated, requests, server, nextUrl,
                   allItems, classMembers, normalized, state, persisted, tokOut,
                   history,
                   remote, upload, clock>>

\* applyFilters, then writeJsonFile, writeXlsxFile, writeNotionPayload in
\* this order. An exception (of the filter, or of the k+1st write) reaches
\* the catch of run(), which exits with code 1
ExportFiles ==
    /\ pc = "normalize"
    /\ Len(normalized) = Len(allItems)
    /\ LET args == parseArgs(argv) IN
       IF filterThrows(normalized, args, state, now)
       THEN Exit(1) /\ UNCHANGED <<filtered, files, outputs>>
       ELSE /\ filtered' = applyFilters(normalized, args, state, now)
            /\ \E k \in 0..Len(ExportOrder) :
                  /\ files' = files \cup {ExportOrder[i] : i \in 1..k}
                  /\ outputs' = written(outputs, filtered', k)
                  /\ IF k = Len(ExportOrder)
                     THEN pc' = "upload" /\ UNCHANGED exitCode
                     ELSE Exit(1)
    /\ UNCHANGED <<argv, env, procToken, dotenv, auiUrl, now, extractor,
                   extCode, launches, validated, requests, server, nextUrl,
                   allItems, classMembers, normalized, state, persisted, tokOut,
                   history,
                   remote, upload, clock>>

\* uploadToNotion(filteredAssignments): skipped without configuration, else
\* the query for the existing ids and one create per item that is not among
\* them
UploadToNotion ==
    /\ pc = "upload"
    /\ \E configured \in BOOLEAN :
          IF configured
          THEN \E existing \in SUBSET {filtered[i].id : i \in 1..Len(filtered)} :
                  LET newItems == newItemsOf(filtered, existing)
                  IN  requests' = requests
                          \o <<Request("notion-query", NoUrl, 0, "200")>>
                          \o [i \in 1..Len(newItems) |->
                                 Request("notion-create", NoUrl, newItems[i].id, "200")]
          ELSE UNCHANGED requests
    /\ pc' = "commit"
    /\ UNCHANGED <<argv, env, procToken, dotenv, auiUrl, now, exitCode, extractor,
                   extCode, launches, validated, server, nextUrl, allItems,
                   classMembers, normalized, files, state, persisted, tokOut,
                   filtered, history,
                   outputs, remote, upload, clock>>

CommitUploaded ==
    /\ pc = "commit"
    /\ LET args == parseArgs(argv)
           failedIds == {upload.calls[i].id :
                            i \in {j \in 1..Len(upload.calls) :
                                       upload.calls[j].outcome # "200"}}
       IN
       IF updateThrows(state, args)
       THEN Exit(1) /\ UNCHANGED <<state, persisted>>
       ELSE /\ state' = updateState(state, args,
                            Ids(SelectSeq(filtered,
                                          LAMBDA item : item.id \notin failedIds)),
                            now)
            /\ persisted' = saveState(state')
            /\ Exit(0)
    /\ UNCHANGED <<argv, env, procToken, dotenv, auiUrl, now, extractor, extCode,
                   launches, validated, requests, server, nextUrl, allItems,
                   classMembers, normalized, files, tokOut,
                   filtered, history,
                   outputs, remote, upload, clock>>

\* updateState(processedIds) with saveState(), then process.exit(0); an
\* exception of updateState reaches the catch of run()
Commit ==
    /\ pc = "commit"
    /\ LET args == parseArgs(argv) IN
       IF updateThrows(state, args)
       THEN Exit(1) /\ UNCHANGED <<state, persisted>>
       ELSE /\ state' = updateState(state, args, Ids(filtered), now)
            /\ persisted' = saveState(state')
            /\ Exit(0)
    /\ UNCHANGED <<argv, env, procToken, dotenv, auiUrl, now, extractor, extCode,
                   launches, validated, requests, server, nextUrl, allItems,
                   classMembers, normalized, files, tokOut,
                   filtered, history,
                   outputs, remote, upload, clock>>

Next ==
    \/ Tick
    \/ RunStart
    \/ ExtractorWrites
    \/ ExtractorClose
    \/ ExtractorError
    \/ RunDetails
    \/ FetchStart
    \/ FetchPage
    \/ NormalizeOne
    \/ ExportFiles
    \/ UploadToNotion
    \/ Commit

Spec == Init /\ [][Next]_vars

----------------------------------------------------------------------------
(* validateToken on its own: every token of at most MaxTokenLen characters *)

Tokens == UNION {[1..n -> TokenChars] : n \in 0..MaxTokenLen}

InitToken ==
    /\ procToken \in Tokens
    /\ now \in 0..MaxNow
    /\ argv = <<>>
    /\ env = [CI |-> "", GITHUB_ACTIONS |-> "", AUI_AUTO_REFRESH |-> ""]
    /\ dotenv = [exists |-> FALSE, token |-> <<>>]
    /\ auiUrl = NoUrl
    /\ server = <<>>
    /\ InitRun

ValidateCall ==
    /\ tokOut = "none"
    /\ tokOut' = IF validateToken(procToken, now) THEN "true" ELSE "false"
    /\ UNCHANGED <<argv, env, procToken, dotenv, auiUrl, now, pc, exitCode,
                   extractor, extCode, launches, validated, requests, server,
                   nextUrl, allItems, classMembers, normalized, files, state,
                   persisted,
                   filtered, history,
                   outputs, remote, upload, clock>>

NextToken == ValidateCall

SpecToken == InitToken /\ [][NextToken]_vars

----------------------------------------------------------------------------
(* fetchAllAssignments on its own, entered with a validated credential *)

ValidToken == <<"h", ".", "3", ".", "h">>

RECURSIVE SeqsUpTo(_, _)
SeqsUpTo(S, n) ==
    IF n = 0 THEN {<<>>}
    ELSE LET shorter == SeqsUpTo(S, n - 1)
         IN  shorter \cup {Append(q, x) : q \in shorter, x \in S}

PageValues == {[isArray |-> TRUE, value |-> v] : v \in SeqsUpTo(RawPool, MaxPageItems)}
                  \cup {[isArray |-> FALSE, value |-> <<>>]}

\* chains of 1..MaxPages pages whose last page carries no next link
Chains ==
    UNION {{c \in [1..n -> {Page(v.isArray, v.value, h) : v \in PageValues, h \in BOOLEAN}] :
               ~c[n].hasNext} : n \in 1..MaxPages}

InitAuthed ==
    /\ argv = <<>>
    /\ env = [CI |-> "", GITHUB_ACTIONS |-> "", AUI_AUTO_REFRESH |-> ""]
    /\ dotenv = [exists |-> FALSE, token |-> <<>>]
    /\ procToken = ValidToken
    /\ InitRun

InitFetch ==
    /\ InitAuthed
    /\ auiUrl = Url(TRUE, <<UserFilter>>)
    /\ server \in Chains
    /\ now = 0

NextFetch ==
    \/ RunStart
    \/ FetchStart
    \/ FetchPage

SpecFetch == InitFetch /\ [][NextFetch]_vars

MaxParams == 2

UrlParams == {UserFilter, Param("$filter", Filter("ge", 1)),
              Param("$top", Filter("lit", 5))}

Urls == {NoUrl} \cup {Url(p, q) : p \in BOOLEAN, q \in SeqsUpTo(UrlParams, MaxParams)}

InitUrl ==
    /\ InitAuthed
    /\ auiUrl \in Urls
    /\ server \in ChainPool
    /\ now \in 0..MaxNow

SpecUrl == InitUrl /\ [][NextFetch]_vars

----------------------------------------------------------------------------
(* applyFilters on its own: lists of canonical records against every      *)
(* combination of the filter options                                       *)

MaxFilterItems == 2

IncompleteFlag == [name |-> "--incomplete", value |-> <<>>]
OverdueFlag == [name |-> "--overdue", value |-> <<>>]
StatusAssigned == [name |-> "--status=", value |-> <<"assigned">>]
StatusDraft == [name |-> "--status=", value |-> <<"draft">>]
ClassOne == [name |-> "--class-id=", value |-> <<1>>]
DueBeforeOne == [name |-> "--due-before=", value |-> <<1>>]
DueAfterOne == [name |-> "--due-after=", value |-> <<1>>]

FilterFlags == <<DueBeforeOne, DueAfterOne, StatusAssigned, StatusDraft, ClassOne,
                 IncompleteFlag, OverdueFlag, IncrementalFlag>>

\* the sub-sequence of flags at the positions S, from position i on
RECURSIVE SubSeqAt(_, _, _)
SubSeqAt(flags, S, i) ==
    IF i > Len(flags) THEN <<>>
    ELSE (IF i \in S THEN <<flags[i]>> ELSE <<>>) \o SubSeqAt(flags, S, i + 1)

FilterArgvPool == {SubSeqAt(FilterFlags, S, 1) : S \in SUBSET (1..Len(FilterFlags))}

\* canonical records on both sides of every test of applyFilters
ItemPool ==
    {Item(1, 1, NoDate, "assigned", TRUE, TRUE, TRUE),
     Item(2, 1, 0, "assigned", TRUE, FALSE, TRUE),
     Item(1, 2, 1, "draft", FALSE, TRUE, TRUE),
     Item(2, 2, 2, "assigned", FALSE, FALSE, TRUE),
     Item(3, 1, 1, "draft", TRUE, TRUE, TRUE),
     Item(3, 2, 0, "", FALSE, FALSE, TRUE),
     Item(1, 1, 2, "assigned", TRUE, TRUE, TRUE),
     Item(2, 0, NoDate, "draft", TRUE, FALSE, TRUE)}

InitFilter ==
    /\ argv \in FilterArgvPool
    /\ normalized \in SeqsUpTo(ItemPool, MaxFilterItems)
    /\ now \in 0..MaxNow
    /\ env = [CI |-> "", GITHUB_ACTIONS |-> "", AUI_AUTO_REFRESH |-> ""]
    /\ dotenv = [exists |-> FALSE, token |-> <<>>]
    /\ procToken = ValidToken
    /\ auiUrl = NoUrl
    /\ server = <<>>
    /\ pc = "filter"
    /\ exitCode = -1
    /\ extractor = "idle"
    /\ extCode = -1
    /\ launches = 0
    /\ validated = {}
    /\ requests = <<>>
    /\ nextUrl = NoNext
    /\ allItems = <<>>
    /\ classMembers = NoMembers
    /\ files = {}
    /\ persisted = StoredState
    /\ state = loadState(persisted)
    /\ tokOut = "none"
    /\ filtered = <<>>
    /\ history = <<>>
    /\ outputs = NoOutputs
    /\ remote = <<>>
    /\ upload = NoUpload
    /\ clock = ClockStart

\* const filteredAssignments = this.applyFilters(normalizedAssignments)
ApplyFiltersCall ==
    /\ pc = "filter"
    /\ ~filterThrows(normalized, parseArgs(argv), state, now)
    /\ filtered' = applyFilters(normalized, parseArgs(argv), state, now)
    /\ pc' = "filtered"
    /\ UNCHANGED <<argv, env, procToken, dotenv, auiUrl, now, exitCode,
                   extractor, extCode, launches, validated, requests, server,
                   nextUrl, allItems, classMembers, normalized, files, state,
                   persisted, tokOut, history,
                   outputs, remote, upload, clock>>

NextFilter == ApplyFiltersCall

SpecFilter == InitFilter /\ [][NextFilter]_vars

----------------------------------------------------------------------------
(* Runs made one after the other over one state.json. A run is taken from  *)
(* the constructor to process.exit in one step, for the runs whose listing *)
(* fetch and normalization succeed; the other runs end before they read or *)
(* write the state again.                                                  *)

MaxRuns == 3

FullFlag == [name |-> "--full", value |-> <<>>]

ModeFlags == <<IncrementalFlag, FullFlag>>

ModeArgvPool == {SubSeqAt(ModeFlags, S, 1) : S \in SUBSET (1..Len(ModeFlags))}

Plain(id) == Item(id, 1, 1, "assigned", FALSE, FALSE, TRUE)

\* the normalized listings of a run
RunListPool == {<<>>, <<Plain(1)>>, <<Plain(2)>>, <<Plain(1), Plain(2)>>}

\* state.json before the first run: absent or not JSON, a state written by
\* an earlier run, the JSON text {}, the JSON text null
FilePool ==
    {[readable |-> FALSE, content |-> DefaultState],
     StoredState,
     [readable |-> TRUE, content |-> [shape |-> "noSeenIds", lastRun |-> -1, seenIds |-> <<>>]],
     [readable |-> TRUE, content |-> [shape |-> "null", lastRun |-> -1, seenIds |-> <<>>]]}

InitRuns ==
    /\ persisted \in FilePool
    /\ state = DefaultState
    /\ argv = <<>>
    /\ normalized = <<>>
    /\ now = 0
    /\ env = [CI |-> "", GITHUB_ACTIONS |-> "", AUI_AUTO_REFRESH |-> ""]
    /\ dotenv = [exists |-> FALSE, token |-> <<>>]
    /\ procToken = ValidToken
    /\ auiUrl = NoUrl
    /\ server = <<>>
    /\ pc = "start"
    /\ exitCode = -1
    /\ extractor = "idle"
    /\ extCode = -1
    /\ launches = 0
    /\ validated = {}
    /\ requests = <<>>
    /\ nextUrl = NoNext
    /\ allItems = <<>>
    /\ classMembers = NoMembers
    /\ files = {}
    /\ tokOut = "none"
    /\ filtered = <<>>
    /\ history = <<>>
    /\ outputs = NoOutputs
    /\ remote = <<>>
    /\ upload = NoUpload
    /\ clock = ClockStart

\* One run with the command line av whose normalized listing is items: the
\* constructor (parseArgs, loadState), then applyFilters, the exports,
\* updateState with saveState, and the exit. An exception of applyFilters
\* or updateState reaches the catch of run(): exit code 1, nothing saved.
\* The entry added to history keeps the state the run loaded, the ids of
\* its filter output and the file it left
SyncRun ==
    /\ Len(history) < MaxRuns
    /\ \E av \in ModeArgvPool, items \in RunListPool :
          LET args == parseArgs(av)
              loaded == loadState(persisted)
              filterFailed == filterThrows(items, args, loaded, now)
              out == IF filterFailed THEN <<>>
                     ELSE applyFilters(items, args, loaded, now)
              ok == ~filterFailed /\ ~updateThrows(loaded, args)
              after == IF ok THEN updateState(loaded, args, Ids(out), now) ELSE loaded
              saved == IF ok THEN saveState(after) ELSE persisted
          IN  /\ argv' = av
              /\ normalized' = items
              /\ filtered' = out
              /\ files' = IF filterFailed THEN files ELSE files \cup ExportNames
              /\ state' = after
              /\ persisted' = saved
              /\ Exit(IF ok THEN 0 ELSE 1)
              /\ history' = Append(history,
                     [args |-> args, items |-> items, ok |-> ok, loaded |-> loaded,
                      file |-> persisted, reported |-> Ids(out), saved |-> saved])
    /\ UNCHANGED <<env, procToken, dotenv, auiUrl, now, extractor, extCode,
                   launches, validated, requests, server, nextUrl, allItems,
                   classMembers, tokOut,
                   outputs, remote, upload, clock>>

NextRuns == SyncRun

SpecRuns == InitRuns /\ [][NextRuns]_vars

----------------------------------------------------------------------------
(* From the listing fetch to the export, for listings that may return a    *)
(* record on two pages                                                     *)

\* the chains of ChainPool; a chain whose second page repeats the record of
\* the first (the record moved while the pages were read); a page that
\* holds one record twice; a page of two records without id
ListingPool ==
    ChainPool \cup {<<Page(TRUE, <<Raw(1, 1, TRUE)>>, TRUE),
                      Page(TRUE, <<Raw(1, 1, TRUE), Raw(2, 1, FALSE)>>, FALSE)>>,
                    <<Page(TRUE, <<Raw(2, 1, TRUE), Raw(2, 1, TRUE)>>, FALSE)>>,
                    <<Page(TRUE, <<Raw(0, 1, FALSE), Raw(0, 0, FALSE)>>, FALSE)>>}

InitListing ==
    /\ InitAuthed
    /\ auiUrl = Url(TRUE, <<UserFilter>>)
    /\ server \in ListingPool
    /\ now = 0

NextListing ==
    \/ RunStart
    \/ FetchStart
    \/ FetchPage
    \/ NormalizeOne
    \/ ExportFiles

SpecListing == InitListing /\ [][NextListing]_vars

----------------------------------------------------------------------------
(* Normalization on its own: records with every kind of instructions,      *)
(* group and creator, each request ending in any outcome                   *)

RawWith(id, classId, content, createdBy) ==
    [Raw(id, classId, TRUE) EXCEPT !.content = content, !.createdBy = createdBy]

\* instructions.content: missing, plain, markup only, padded, a tag inside a
\* tag, longer than the cap after stripping
ContentPool == {<<>>, <<"a">>, <<"<", "a", ">">>, <<" ", "a", " ">>,
                <<"<", "<", "a", ">", "a", ">">>,
                <<"a", "<", "a", ">", "a", "a">>}

\* createdBy.user.id: missing, three teachers, a student, a stranger
CreatorPool == {"", "t1", "t2", "t3", "s1", "zz"}

DescriptionRaws ==
    {RawWith(id, classId, content, "") :
        id \in {0, 1, 2, 3}, classId \in {0, 1}, content \in ContentPool}

TeacherRaws ==
    {RawWith(1, classId, <<"a">>, createdBy) :
        classId \in {1, 2, 3}, createdBy \in CreatorPool}

\* records that follow another one: of the same group and of another, with
\* and without a detail fallback
SecondRaws ==
    {RawWith(2, classId, content, createdBy) :
        classId \in {1, 2}, content \in {<<>>, <<"a">>}, createdBy \in {"t3", "zz"}}

NormalizeListPool ==
    {<<raw>> : raw \in DescriptionRaws \cup TeacherRaws}
        \cup {<<first, second>> : first \in TeacherRaws \cup SecondRaws,
                                  second \in SecondRaws}

\* run() when fetchAllAssignments has returned
InitNormalize ==
    /\ allItems \in NormalizeListPool
    /\ normalized = <<>>
    /\ classMembers = NoMembers
    /\ argv = <<>>
    /\ now = 0
    /\ env = [CI |-> "", GITHUB_ACTIONS |-> "", AUI_AUTO_REFRESH |-> ""]
    /\ dotenv = [exists |-> FALSE, token |-> <<>>]
    /\ procToken = ValidToken
    /\ auiUrl = Url(TRUE, <<UserFilter>>)
    /\ server = <<>>
    /\ pc = "normalize"
    /\ exitCode = -1
    /\ extractor = "idle"
    /\ extCode = -1
    /\ launches = 0
    /\ validated = {procToken}
    /\ requests = <<>>
    /\ nextUrl = NoNext
    /\ files = {}
    /\ persisted = StoredState
    /\ state = loadState(persisted)
    /\ tokOut = "none"
    /\ filtered = <<>>
    /\ history = <<>>
    /\ outputs = NoOutputs
    /\ remote = <<>>
    /\ upload = NoUpload
    /\ clock = ClockStart

NormalizeAny == NormalizeWith(Outcomes, Outcomes)

NextNormalize ==
    \/ NormalizeAny
    \/ ExportFiles

SpecNormalize == InitNormalize /\ [][NextNormalize]_vars

----------------------------------------------------------------------------
(* The export step on its own: listings whose due dates span two years,   *)
(* in full and in incremental mode                                         *)

MaxExportItems == 2

RawDue(id, due) == [Raw(id, 1, TRUE) EXCEPT !.dueDateTime = due]

\* no date, an unreadable date, and every instant of two years
DuePool == {NoDate, Unparsable} \cup (0..(2 * MonthLen * MonthsPerYear - 1))

DatedRawPool == {RawDue(id, due) : id \in {1, 2}, due \in DuePool}

InitExport ==
    /\ allItems \in SeqsUpTo(DatedRawPool, MaxExportItems)
    /\ normalized = [i \in 1..Len(allItems) |->
                         normalizeAssignment(allItems[i], fetchClassMembers(1, "200"),
                                             <<>>)]
    /\ argv \in {<<>>, <<IncrementalFlag>>}
    /\ now = 0
    /\ env = [CI |-> "", GITHUB_ACTIONS |-> "", AUI_AUTO_REFRESH |-> ""]
    /\ dotenv = [exists |-> FALSE, token |-> <<>>]
    /\ procToken = ValidToken
    /\ auiUrl = Url(TRUE, <<UserFilter>>)
    /\ server = <<>>
    /\ pc = "normalize"
    /\ exitCode = -1
    /\ extractor = "idle"
    /\ extCode = -1
    /\ launches = 0
    /\ validated = {procToken}
    /\ requests = <<>>
    /\ nextUrl = NoNext
    /\ classMembers = memoize(NoMembers, 1, fetchClassMembers(1, "200"), "200")
    /\ files = {}
    /\ persisted = StoredState
    /\ state = loadState(persisted)
    /\ tokOut = "none"
    /\ filtered = <<>>
    /\ history = <<>>
    /\ outputs = NoOutputs
    /\ remote = <<>>
    /\ upload = NoUpload
    /\ clock = ClockStart

NextExport == ExportFiles

SpecExport == InitExport /\ [][NextExport]_vars

----------------------------------------------------------------------------
(* uploadToNotion step by step, in runs that start with the listing        *)
(* normalized: export, the query of the database, the creates under the    *)
(* rate limiter, the commit; then the same run once more                   *)

\* the first lines of uploadToNotion: the configuration is read from the
\* environment; without it the stage returns
NotionStart ==
    /\ pc = "upload"
    /\ \E cfg \in NotionEnvPool :
          /\ upload' = [NoUpload EXCEPT !.config = cfg]
          /\ pc' = IF notionConfigured(cfg) THEN "notion-query" ELSE "commit"
    /\ UNCHANGED <<argv, env, procToken, dotenv, auiUrl, now, exitCode, extractor,
                   extCode, launches, validated, requests, server, nextUrl,
                   allItems, classMembers, normalized, files, state, persisted,
                   tokOut, filtered, history, outputs, remote, clock>>

NotionQueryRetrying ==
    /\ pc = "notion-query"
    /\ \E outcome \in {"200", "500"} :
          LET got == IF outcome = "200" /\ upload.cursor <= Len(remote)
                     THEN pageIds(remote[upload.cursor]) ELSE {}
              ids == upload.existingIds \cup got
              hasMore == outcome = "200" /\ upload.cursor < Len(remote)
              newItems == newItemsOf(filtered, ids)
          IN  /\ upload' = [upload EXCEPT
                     !.existingIds = ids,
                     !.queries = Append(@, [cursor |-> upload.cursor, outcome |-> outcome,
                                            pages |-> Len(remote)]),
                     !.cursor = IF hasMore THEN @ + 1 ELSE @,
                     !.newItems = IF hasMore THEN @ ELSE newItems]
              /\ requests' = Append(requests,
                     Request("notion-query", NoUrl, upload.cursor, outcome))
              /\ pc' = IF hasMore \/ outcome # "200" THEN "notion-query"
                       ELSE IF newItems = <<>> THEN "commit" ELSE "notion-create"
    /\ UNCHANGED <<argv, env, procToken, dotenv, auiUrl, now, exitCode, extractor,
                   extCode, launches, validated, server, nextUrl, allItems,
                   classMembers, normalized, files, state, persisted, tokOut,
                   filtered, history, outputs, remote, clock>>


\* One round of the while loop of getExistingNotionIds: the request for the
\* page at the cursor. A response that is not ok, a network error or a body
\* without results ends the loop with the ids collected so far ("500"). When
\* the loop ends, uploadToNotion computes newItems
NotionQuery ==
    /\ pc = "notion-query"
    /\ \E outcome \in {"200", "500"} :
          LET got == IF outcome = "200" /\ upload.cursor <= Len(remote)
                     THEN pageIds(remote[upload.cursor]) ELSE {}
              ids == upload.existingIds \cup got
              hasMore == outcome = "200" /\ upload.cursor < Len(remote)
              newItems == newItemsOf(filtered, ids)
          IN  /\ upload' = [upload EXCEPT
                     !.existingIds = ids,
                     !.queries = Append(@, [cursor |-> upload.cursor, outcome |-> outcome,
                                            pages |-> Len(remote)]),
                     !.cursor = IF hasMore THEN @ + 1 ELSE @,
                     !.newItems = IF hasMore THEN @ ELSE newItems]
              /\ requests' = Append(requests,
                     Request("notion-query", NoUrl, upload.cursor, outcome))
              /\ pc' = IF hasMore THEN "notion-query"
                       ELSE IF newItems = <<>> THEN "commit" ELSE "notion-create"
    /\ UNCHANGED <<argv, env, procToken, dotenv, auiUrl, now, exitCode, extractor,
                   extCode, launches, validated, server, nextUrl, allItems,
                   classMembers, normalized, files, state, persisted, tokOut,
                   filtered, history, outputs, remote, clock>>

NotionCreateStopping ==
    /\ pc = "notion-create"
    /\ LET item == upload.newItems[Len(upload.calls) + 1] IN
       \E late \in 0..MaxLate, dur \in 0..MaxDuration, outcome \in {"200", "400"} :
          LET at == rateLimiterRelease(clock, upload.lastCall, late) IN
          /\ upload' = [upload EXCEPT
                 !.lastCall = at,
                 !.calls = Append(@, [id |-> item.id, asked |-> clock, at |-> at,
                                      outcome |-> outcome]),
                 !.uploaded = IF outcome = "200" THEN @ + 1 ELSE @,
                 !.failed = IF outcome = "200" THEN @ ELSE @ + 1]
          /\ remote' = IF outcome = "200" THEN remoteAfterCreate(remote, item.id)
                       ELSE remote
          /\ requests' = Append(requests,
                 Request("notion-create", NoUrl, item.id, outcome))
          /\ clock' = at + dur
          /\ pc' = IF Len(upload.calls) + 1 = Len(upload.newItems) \/ outcome # "200"
                   THEN "commit" ELSE "notion-create"
    /\ UNCHANGED <<argv, env, procToken, dotenv, auiUrl, now, exitCode, extractor,
                   extCode, launches, validated, server, nextUrl, allItems,
                   classMembers, normalized, files, state, persisted, tokOut,
                   filtered, history, outputs>>

\* One round of the for loop of uploadToNotion: await rateLimiter(), then
\* createNotionPage(item), whose exception is caught and counted. asked is
\* Date.now() when the limiter is called, at when it returns; the call takes
\* dur
NotionCreate ==
    /\ pc = "notion-create"
    /\ LET item == upload.newItems[Len(upload.calls) + 1] IN
       \E late \in 0..MaxLate, dur \in 0..MaxDuration, outcome \in {"200", "400"} :
          LET at == rateLimiterRelease(clock, upload.lastCall, late) IN
          /\ upload' = [upload EXCEPT
                 !.lastCall = at,
                 !.calls = Append(@, [id |-> item.id, asked |-> clock, at |-> at,
                                      outcome |-> outcome]),
                 !.uploaded = IF outcome = "200" THEN @ + 1 ELSE @,
                 !.failed = IF outcome = "200" THEN @ ELSE @ + 1]
          /\ remote' = IF outcome = "200" THEN remoteAfterCreate(remote, item.id)
                       ELSE remote
          /\ requests' = Append(requests,
                 Request("notion-create", NoUrl, item.id, outcome))
          /\ clock' = at + dur
          /\ pc' = IF Len(upload.calls) + 1 = Len(upload.newItems)
                   THEN "commit" ELSE "notion-create"
    /\ UNCHANGED <<argv, env, procToken, dotenv, auiUrl, now, exitCode, extractor,
                   extCode, launches, validated, server, nextUrl, allItems,
                   classMembers, normalized, files, state, persisted, tokOut,
                   filtered, history, outputs>>

\* the program run a second time after a run that completed, in full or
\* in incremental mode: history keeps the creates of the first run
RunAgain ==
    /\ pc = "exited" /\ exitCode = 0
    /\ history = <<>>
    /\ argv' \in {<<>>, <<IncrementalFlag>>}
    /\ history' = <<[config |-> upload.config,
                     created |-> [i \in 1..Len(upload.calls) |->
                                     [id |-> upload.calls[i].id,
                                      outcome |-> upload.calls[i].outcome]]]>>
    /\ clock' = ClockStart
    /\ state' = loadState(persisted)
    /\ pc' = "normalize"
    /\ exitCode' = -1
    /\ filtered' = <<>>
    /\ files' = {}
    /\ requests' = <<>>
    /\ upload' = NoUpload
    /\ UNCHANGED <<env, procToken, dotenv, auiUrl, now, extractor, extCode,
                   launches, validated, server, nextUrl, allItems, classMembers,
                   normalized, persisted, tokOut, outputs, remote>>

\* the listings of the runs: none, one record, two records, a record the
\* listing returns twice, a record without id, two records without id
UploadListPool ==
    {<<>>,
     <<Raw(1, 1, TRUE)>>,
     <<Raw(1, 1, TRUE), Raw(2, 1, TRUE)>>,
     <<Raw(1, 1, TRUE), Raw(1, 1, TRUE)>>,
     <<Raw(0, 1, TRUE), Raw(2, 1, TRUE)>>,
     <<Raw(0, 1, TRUE), Raw(0, 1, TRUE)>>}

\* the database before the first run
RemotePool == {<<>>, <<<<1>>>>, <<<<1>>, <<2>>>>, <<<<0, 2>>>>}

InitUpload ==
    /\ allItems \in UploadListPool
    /\ normalized = [i \in 1..Len(allItems) |->
                         normalizeAssignment(allItems[i], fetchClassMembers(1, "200"),
                                             <<>>)]
    /\ remote \in RemotePool
    /\ argv = <<>>
    /\ now = 0
    /\ env = [CI |-> "", GITHUB_ACTIONS |-> "", AUI_AUTO_REFRESH |-> ""]
    /\ dotenv = [exists |-> FALSE, token |-> <<>>]
    /\ procToken = ValidToken
    /\ auiUrl = Url(TRUE, <<UserFilter>>)
    /\ server = <<>>
    /\ pc = "normalize"
    /\ exitCode = -1
    /\ extractor = "idle"
    /\ extCode = -1
    /\ launches = 0
    /\ validated = {procToken}
    /\ requests = <<>>
    /\ nextUrl = NoNext
    /\ classMembers = memoize(NoMembers, 1, fetchClassMembers(1, "200"), "200")
    /\ files = {}
    /\ persisted = StoredState
    /\ state = loadState(persisted)
    /\ tokOut = "none"
    /\ filtered = <<>>
    /\ history = <<>>
    /\ outputs = NoOutputs
    /\ upload = NoUpload
    /\ clock = ClockStart

NextUpload ==
    \/ ExportFiles
    \/ NotionStart
    \/ NotionQuery
    \/ NotionCreate
    \/ Commit
    \/ RunAgain

SpecUpload == InitUpload /\ [][NextUpload]_vars

----------------------------------------------------------------------------
(* A whole run with the upload step by step, every step taken in the end   *)

\* a listing of one page, and one of two pages with an empty last page
TerminationChains ==
    {<<Page(TRUE, <<Raw(1, 1, FALSE)>>, FALSE)>>,
     <<Page(TRUE, <<Raw(1, 1, TRUE)>>, TRUE), Page(TRUE, <<>>, FALSE)>>}

\* an empty database, and one of two pages that has the item on the second
TerminationRemotes == {<<>>, <<<<2>>, <<1>>>>}

\* a workstation, with or without a usable token
InitTermination ==
    /\ argv \in {<<>>, <<DetailsGood>>}
    /\ env = [CI |-> "", GITHUB_ACTIONS |-> "", AUI_AUTO_REFRESH |-> ""]
    /\ dotenv \in DotenvPool
    /\ \E shell \in TokenPool : procToken = loadEnv(shell, dotenv, FALSE)
    /\ auiUrl = Url(TRUE, <<UserFilter>>)
    /\ server \in TerminationChains
    /\ remote \in TerminationRemotes
    /\ now = 0
    /\ pc = "start"
    /\ exitCode = -1
    /\ extractor = "idle"
    /\ extCode = -1
    /\ launches = 0
    /\ validated = {}
    /\ requests = <<>>
    /\ nextUrl = NoNext
    /\ allItems = <<>>
    /\ classMembers = NoMembers
    /\ normalized = <<>>
    /\ files = {}
    /\ persisted = StoredState
    /\ state = loadState(persisted)
    /\ tokOut = "none"
    /\ filtered = <<>>
    /\ history = <<>>
    /\ outputs = NoOutputs
    /\ upload = NoUpload
    /\ clock = ClockStart

\* the steps of the program: the continuation of run() after each await
RunStep ==
    \/ RunStart
    \/ ExtractorClose
    \/ ExtractorError
    \/ RunDetails
    \/ FetchStart
    \/ FetchPage
    \/ NormalizeOne
    \/ ExportFiles
    \/ NotionStart
    \/ NotionQuery
    \/ NotionCreate
    \/ Commit

NextTermination ==
    \/ Tick
    \/ ExtractorWrites
    \/ RunStep

\* every request is answered or fails and the child exits, so a run that
\* can take a step takes one in the end
SpecTermination ==
    InitTermination /\ [][NextTermination]_vars /\ WF_vars(RunStep)

----------------------------------------------------------------------------
(* Claims *)

Args == parseArgs(argv)

Unattended == env.CI = "true" \/ env.GITHUB_ACTIONS = "true" \/ env.AUI_AUTO_REFRESH = "0"

AuiKinds == {"listing", "roster", "detail", "detail-dump"}

\* the token is  <no dots> . d . <no dots>  with d a digit greater than t
ThreePartsFresh(token, t) ==
    \E i \in 1..Len(token) :
        /\ i + 2 <= Len(token)
        /\ \A k \in 1..Len(token) : token[k] = "." <=> k \in {i, i + 2}
        /\ token[i + 1] \in Digits
        /\ DigitVal(token[i + 1]) > t

\* C1: validateToken returns true exactly for a token of three dot-separated
\* parts whose payload is a JSON object with exp strictly greater than now;
\* for a missing token, another shape, unparsable claims, no exp, or
\* exp <= now it returns false.
C1_ValidateTokenFailsClosed ==
    tokOut # "none" => (tokOut = "true" <=> ThreePartsFresh(procToken, now))

C1_Witness ==
    /\ tokOut = "true"
    /\ Len(procToken) = 5
    /\ now = 1

\* C2: a step that leaves the start of run() with a credential that validates
\* and without --refresh-tokens spawns no child and passes the credential
\* step; nothing is ever spawned later.
C2_ValidTokenSkipsExtractor ==
    [][/\ (pc = "start" /\ pc' # "start" /\ validateToken(procToken, now)
              /\ ~Args.refreshTokens)
          => (launches' = 0 /\ extractor' = "idle" /\ pc' = "authed")
       /\ (pc # "start" => launches' = launches)]_vars

C2_Witness ==
    /\ pc = "listing"
    /\ ~Args.refreshTokens
    /\ ~Unattended
    /\ launches = 0
    /\ procToken \in validated

FailedClean ==
    /\ pc' = "exited"
    /\ exitCode' = 1
    /\ requests' = <<>>
    /\ files' = {}
    /\ persisted' = StoredState

Reloaded == IF dotenv.exists THEN dotenv.token ELSE procToken

\* C6: when the child ends, the run passes the credential step if and only if
\* the child exited with code 0 and the credential reloaded from .env (the
\* .env value replacing the in-process one) validates; otherwise it ends with
\* a non-zero status and no request.
C6_RefreshOutcome ==
    [][(pc = "extractor" /\ pc' # "extractor")
          => /\ pc' = "authed" <=> (extractor' = "exited" /\ extCode' = 0
                                       /\ validateToken(Reloaded, now))
             /\ pc' = "authed" => procToken' = Reloaded
             /\ pc' # "authed" => FailedClean]_vars

C6_Witness ==
    /\ pc = "authed"
    /\ extractor = "exited"
    /\ extCode = 0
    /\ dotenv.exists
    /\ procToken = dotenv.token
    /\ Args.refreshTokens
    /\ Unattended

\* C7: every request to the assignments API is sent with a credential for
\* which validateToken had returned true in this run, and, when a child was
\* spawned, after the child has exited.
C7_FreshnessGate ==
    \A i \in 1..Len(requests) :
        requests[i].kind \in AuiKinds
            => /\ requests[i].vouched
               /\ requests[i].ext # "running"
               /\ launches > 0 => requests[i].ext = "exited"

C7_Witness ==
    /\ launches = 1
    /\ \E i, j \in 1..Len(requests) :
          requests[i].kind = "roster" /\ requests[j].kind = "detail"

RECURSIVE ReachedItems(_, _)
\* the items of page i and of the pages its next links lead to
ReachedItems(chain, i) ==
    (IF chain[i].isArray THEN chain[i].value ELSE <<>>)
        \o (IF chain[i].hasNext THEN ReachedItems(chain, i + 1) ELSE <<>>)

RECURSIVE ReachedCount(_, _)
ReachedCount(chain, i) ==
    (IF chain[i].isArray THEN Len(chain[i].value) ELSE 0)
        + (IF chain[i].hasNext THEN ReachedCount(chain, i + 1) ELSE 0)

\* C8: when fetchAllAssignments returns, allItems is the concatenation, in
\* page order, of the items of the pages reached by following the next links
\* from the first page, and its length is the sum of their item counts.
C8_FetchAllConcatenates ==
    pc = "normalize"
        => /\ allItems = ReachedItems(server, 1)
           /\ Len(allItems) = ReachedCount(server, 1)

C8_Witness ==
    /\ pc = "normalize"
    /\ Len(server) = 2
    /\ Len(server[1].value) = 2
    /\ Len(server[2].value) = 2
    /\ Len(allItems) = 4
    /\ allItems[1] # allItems[2]

FilterCount(params) == Cardinality({k \in 1..Len(params) : params[k].name = "$filter"})

\* C9: the first listing request carries exactly one $filter, equal to
\* 'dueDateTime ge <first instant of the current month>', whatever the
\* configured URL carried.
C9_MonthFilterOverrides ==
    \A i \in 1..Len(requests) :
        (requests[i].kind = "listing" /\ requests[i].page = 1)
            => /\ FilterCount(requests[i].url.params) = 1
               /\ \E m \in 0..requests[i].t :
                     /\ m % MonthLen = 0
                     /\ requests[i].t < m + MonthLen
                     /\ \E k \in 1..Len(requests[i].url.params) :
                           requests[i].url.params[k] = Param("$filter", Filter("ge", m))

C9_Witness ==
    /\ FilterCount(auiUrl.params) = 2
    /\ now % MonthLen # 0
    /\ Len(requests) = 1
    /\ requests[1].kind = "listing"

\* C10: a listing request that does not end in a 200 response with a body is
\* the last request of the run, which ends with a non-zero status without an
\* export file and without a state commit.
C10_ListingFailureIsFatal ==
    \A i \in 1..Len(requests) :
        (requests[i].kind = "listing" /\ requests[i].outcome # "200")
            => /\ i = Len(requests)
               /\ pc = "exited"
               /\ exitCode = 1
               /\ files = {}
               /\ persisted = StoredState

C10_Witness ==
    /\ Len(requests) = 2
    /\ requests[1].kind = "listing"
    /\ requests[2].kind = "listing"
    /\ requests[2].outcome = "403"
    /\ pc = "exited"

\* the list without the records that satisfy drop
Without(items, drop(_)) == SelectSeq(items, LAMBDA item : ~drop(item))

\* C11: with --incomplete an item is excluded exactly when it is both
\* allTurnedIn and anySubmittedState; an item with only one of the two set
\* is retained by this test, so the output is the output of the other
\* options minus the items with both flags
FullySubmitted(item) == item.allTurnedIn /\ item.anySubmittedState

C11_IncompleteNeedsBothFlags ==
    (pc = "filtered" /\ Args.incomplete) =>
        filtered = Without(applyFilters(normalized, [Args EXCEPT !.incomplete = FALSE],
                                        state, now), FullySubmitted)

C11_Witness ==
    /\ pc = "filtered" /\ Args.incomplete
    /\ \E i \in 1..Len(normalized) : FullySubmitted(normalized[i])
    /\ \E i \in 1..Len(filtered) :
          filtered[i].allTurnedIn /\ ~filtered[i].anySubmittedState

\* C12: with --overdue an item is retained only when it has a due date
\* strictly before the current time; due at or after the current time, or
\* without a due date, it is excluded
NotOverdue(item) == item.dueDate = NoDate \/ ~(item.dueDate < now)

C12_OverdueStrictlyBeforeNow ==
    (pc = "filtered" /\ Args.overdue) =>
        filtered = Without(applyFilters(normalized, [Args EXCEPT !.overdue = FALSE],
                                        state, now), NotOverdue)

C12_Witness ==
    /\ pc = "filtered" /\ Args.overdue
    /\ \E i \in 1..Len(normalized) : normalized[i].dueDate = now
    /\ \E i \in 1..Len(filtered) : filtered[i].dueDate < now
    /\ Len(filtered) < Len(normalized)

\* C15: applyFilters is a pure conjunction. Its output is the sub-sequence
\* of the input, in the input's order and with the records as they were,
\* of the items that pass every active test, whatever the order in which
\* the tests are taken (Passes takes them last to first); an empty status
\* or class list excludes nothing
ToSet(seq) == {seq[i] : i \in 1..Len(seq)}

Passes(item) ==
    /\ Args.incremental => item.id \notin ToSet(state.seenIds)
    /\ Args.overdue => (item.dueDate # NoDate /\ item.dueDate < now)
    /\ Args.incomplete => ~(item.allTurnedIn /\ item.anySubmittedState)
    /\ ToSet(Args.classIds) = {} \/ item.classId \in ToSet(Args.classIds)
    /\ ToSet(Args.statuses) = {} \/ item.status \in ToSet(Args.statuses)
    /\ (Args.dueAfter # NoDate /\ item.dueDate # NoDate) => item.dueDate >= Args.dueAfter
    /\ (Args.dueBefore # NoDate /\ item.dueDate # NoDate) => item.dueDate <= Args.dueBefore

C15_FiltersArePureConjunction ==
    pc = "filtered" => filtered = SelectSeq(normalized, Passes)

C15_Witness ==
    /\ pc = "filtered"
    /\ Args.statuses = <<>> /\ Args.classIds # <<>> /\ Args.dueBefore # NoDate
    /\ Len(normalized) = MaxFilterItems
    /\ Len(filtered) > 0 /\ Len(filtered) < Len(normalized)

\* C13: in a run with --incremental no item whose id is in the seen-set
\* loaded at the start of the run is in the filter output, and no page is
\* created in the remote store for such an id
LoadedSeen == ToSet(loadState(StoredState).seenIds)

Created == {requests[i].page : i \in {j \in 1..Len(requests) :
                                         requests[j].kind = "notion-create"}}

C13_IncrementalSkipsSeen ==
    Args.incremental =>
        /\ \A i \in 1..Len(filtered) : filtered[i].id \notin LoadedSeen
        /\ Created \cap LoadedSeen = {}

C13_Witness ==
    /\ Args.incremental
    /\ pc = "exited" /\ exitCode = 0
    /\ \E i \in 1..Len(normalized) : normalized[i].id \in LoadedSeen
    /\ Created # {}

\* the latest run of history
Last == history[Len(history)]

\* C16: after a successful run in full mode the persisted seenIds are
\* exactly the ids of this run's filtered items: ids loaded from earlier
\* runs that this run did not output are dropped, no other id is kept
C16_FullReplacesSeen ==
    (history # <<>> /\ Last.ok /\ Last.args.full) =>
        /\ persisted.readable
        /\ persisted.content.seenIds = Ids(filtered)
        /\ ToSet(persisted.content.seenIds) = ToSet(Last.reported)

C16_Witness ==
    /\ history # <<>> /\ Last.ok /\ Last.args.full
    /\ ToSet(Last.loaded.seenIds) \ ToSet(Last.reported) # {}
    /\ ToSet(Last.reported) \ ToSet(Last.loaded.seenIds) # {}

\* C14: when every run of the sequence was made with --incremental and
\* completed, no id is in the filter output of two of the runs
AllIncremental == \A k \in 1..Len(history) : history[k].ok /\ history[k].args.incremental

C14_ReportedAtMostOnce ==
    AllIncremental =>
        \A i, j \in 1..Len(history) :
            i < j => ToSet(history[i].reported) \cap ToSet(history[j].reported) = {}

\* C17: a completed run with --incremental leaves as seenIds the loaded
\* seenIds united with the ids it processed, so it removes no id
C17_IncrementalCommitIsUnion ==
    (history # <<>> /\ Last.ok /\ Last.args.incremental) =>
        /\ ToSet(persisted.content.seenIds)
               = ToSet(Last.loaded.seenIds) \cup ToSet(Last.reported)
        /\ ToSet(Last.loaded.seenIds) \subseteq ToSet(persisted.content.seenIds)

\* C18: without a mode flag the run is full; with --incremental the run is
\* not full, also next to --full: it filters by the loaded seen-set and
\* its commit unites, never replaces
C18_IncrementalImpliesNonFull ==
    history # <<>> =>
        /\ (~HasFlag(argv, "--incremental") /\ ~HasFlag(argv, "--full")) => Last.args.full
        /\ (HasFlag(argv, "--incremental") /\ Last.ok) =>
              /\ ~Last.args.full
              /\ ToSet(Last.reported) \cap ToSet(Last.loaded.seenIds) = {}
              /\ ToSet(persisted.content.seenIds)
                     = ToSet(Last.loaded.seenIds) \cup ToSet(Last.reported)

\* C19: whatever state.json holds before the first run, a file that is not
\* a state of the shape {lastRun, seenIds} is taken as no state: the run
\* does what it does with the default state, and it completes
WellFormed(file) == file.readable /\ file.content.shape = "ok"

C19_AnyStateFileIsTolerated ==
    (history # <<>> /\ ~WellFormed(history[1].file)) =>
        LET run == history[1]
            out == applyFilters(run.items, run.args, DefaultState, now)
        IN  /\ run.ok
            /\ run.reported = Ids(out)
            /\ run.saved = saveState(updateState(DefaultState, run.args, Ids(out), now))

\* C20: state.json is written only by the state-update step, which runs
\* when every export file is written and the upload has returned, and is
\* followed by exit code 0; a run that ends with another exit code leaves
\* state.json as it was before the run
C20_StateWrittenOnlyAtCommit ==
    /\ [][persisted' # persisted =>
              /\ pc = "commit"
              /\ ExportNames \subseteq files
              /\ pc' = "exited" /\ exitCode' = 0]_vars
    /\ []((pc = "exited" /\ exitCode # 0) => persisted = StoredState)

C20_Witness ==
    /\ pc = "exited" /\ exitCode = 1
    /\ "assignments.json" \in files /\ "notion_payload.json" \notin files
    /\ persisted = StoredState

\* C21 as stated: in every mode the top-level export files hold the
\* complete filtered set, the items that pass the user's other tests, seen
\* before or not
TopNames == {"assignments.json", "assignments.xlsx", "assignments.csv",
             "notion_payload.json"}

C21_Original ==
    pc = "upload" =>
        \A n \in TopNames :
            outputs[TopPath(n)] = applyFilters(normalized, [Args EXCEPT !.incremental = FALSE],
                                               state, now)

\* C21: the top-level export files hold the filter output, the very items
\* that are reported and uploaded: in a run with --incremental no item of
\* the loaded seen-set is in them; without it they hold the complete
\* filtered set
C21_ExportsHoldFilterOutput ==
    pc = "upload" =>
        /\ \A n \in TopNames : outputs[TopPath(n)] = filtered
        /\ Args.incremental =>
              \A i \in 1..Len(filtered) : filtered[i].id \notin ToSet(state.seenIds)
        /\ ~Args.incremental => filtered = normalized

C21_Witness ==
    /\ pc = "upload" /\ Args.incremental
    /\ \E i \in 1..Len(normalized) : normalized[i].id \in ToSet(state.seenIds)
    /\ outputs[TopPath("assignments.json")] # <<>>

\* C22: every filtered item with a due date is in exactly one year
\* partition and exactly one (year, month) partition, those of its due
\* date; the month partitions of a year hold together exactly the items of
\* the year partition; an item without a due date is in no partition and is
\* in the top-level files
Partitions(dir, n) == {p \in DOMAIN outputs : p.dir = dir /\ p.name = n}

Holding(dir, n, item) == {p \in Partitions(dir, n) : item \in ToSet(outputs[p])}

RECURSIVE SumLen(_)
SumLen(paths) ==
    IF paths = {} THEN 0
    ELSE LET p == CHOOSE q \in paths : TRUE
         IN  Len(outputs[p]) + SumLen(paths \ {p})

C22_PartitionsByDueDate ==
    pc = "upload" =>
        \A n \in {"assignments.json", "assignments.csv"} :
            /\ \A i \in 1..Len(filtered) :
                  LET item == filtered[i] IN
                  /\ item \in ToSet(outputs[TopPath(n)])
                  /\ IF item.dueDate = NoDate
                     THEN Holding("by-year", n, item) = {} /\ Holding("by-month", n, item) = {}
                     ELSE /\ Cardinality(Holding("by-year", n, item)) = 1
                          /\ Cardinality(Holding("by-month", n, item)) = 1
                          /\ \A p \in Holding("by-year", n, item) \cup Holding("by-month", n, item) :
                                p.year * MonthsPerYear * MonthLen <= item.dueDate
                                    /\ item.dueDate < (p.year + 1) * MonthsPerYear * MonthLen
                          /\ \A p \in Holding("by-month", n, item) :
                                LET first == (p.year * MonthsPerYear + p.month) * MonthLen
                                IN  first <= item.dueDate /\ item.dueDate < first + MonthLen
            /\ \A py \in Partitions("by-year", n) :
                  LET months == {pm \in Partitions("by-month", n) : pm.year = py.year}
                  IN  /\ ToSet(outputs[py]) = UNION {ToSet(outputs[pm]) : pm \in months}
                      /\ Len(outputs[py]) = SumLen(months)
            /\ \A pm \in Partitions("by-month", n) :
                  \E py \in Partitions("by-year", n) : py.year = pm.year

C22_Witness ==
    /\ pc = "upload"
    /\ \E i \in 1..Len(allItems) : allItems[i].dueDateTime = Unparsable
    /\ Partitions("by-month", "assignments.json") # {}
    /\ Len(outputs[TopPath("assignments.json")]) = MaxExportItems

\* the upload stage has made its query and left its loop
UploadDone == pc \in {"commit", "exited"} /\ upload.queries # <<>>

CallIds == [i \in 1..Len(upload.calls) |-> upload.calls[i].id]

\* C23: uploadToNotion makes no create call for an id in the set its query
\* returned, and the items it tries to create are exactly the input items
\* whose id is not in that set, in the order of the input
C23_CreatesOnlyTheDifference ==
    /\ \A i \in 1..Len(upload.calls) : upload.calls[i].id \notin upload.existingIds
    /\ UploadDone =>
          CallIds = Ids(SelectSeq(filtered, LAMBDA item : item.id \notin upload.existingIds))

C23_Witness ==
    /\ UploadDone
    /\ \E i \in 1..Len(filtered) : filtered[i].id \in upload.existingIds
    /\ upload.calls # <<>>

\* C24: when the first create call is about to be made, the query has been
\* read to its last page whatever its requests returned: the ids collected
\* are all the ids the database holds
RemoteIds == UNION {pageIds(remote[k]) : k \in 1..Len(remote)}

C24_QueryReadToCompletion ==
    (pc = "notion-create" /\ upload.calls = <<>>) =>
        /\ \A q \in 1..Len(upload.queries) : upload.queries[q].outcome = "200"
        /\ Len(upload.queries) >= Len(remote)
        /\ upload.existingIds = RemoteIds

\* C25: two consecutive create calls start at least DelayMs apart, counted
\* from the instant the limiter released the earlier one, whatever the
\* outcome of the earlier one; the first call starts when it is asked for
C25_CreatesAreSpaced ==
    /\ \A i \in 2..Len(upload.calls) :
          upload.calls[i].at - upload.calls[i - 1].at >= DelayMs
    /\ upload.calls # <<>> => upload.calls[1].at = upload.calls[1].asked

C25_Witness ==
    /\ Len(upload.calls) = 2
    /\ upload.calls[1].outcome = "400"
    /\ upload.calls[2].asked - upload.calls[1].at < DelayMs
    /\ upload.calls[2].at > upload.calls[2].asked

\* C26: a create that fails ends neither the loop nor the run: when the
\* loop is left every item of the difference was tried once, in order, and
\* uploaded + failed is their number; a run that exits after creates exits
\* with code 0 and has committed its state
C26_FailedCreateDoesNotAbort ==
    /\ UploadDone =>
          /\ CallIds = Ids(upload.newItems)
          /\ upload.uploaded + upload.failed = Len(upload.newItems)
          /\ upload.failed =
                 Cardinality({i \in 1..Len(upload.calls) : upload.calls[i].outcome # "200"})
    /\ (pc = "exited" /\ upload.calls # <<>>) =>
          /\ exitCode = 0
          /\ persisted = saveState(state)
          /\ state.seenIds = Ids(filtered)

C26_Witness ==
    /\ pc = "exited" /\ exitCode = 0
    /\ Len(upload.calls) = 2
    /\ upload.calls[1].outcome = "400" /\ upload.calls[2].outcome = "200"

\* C27: without NOTION_TOKEN or NOTION_DATABASE_ID the stage makes no query
\* and no create call, and the run writes every export file, commits and
\* exits with code 0
NotionRequests ==
    {i \in 1..Len(requests) : requests[i].kind \in {"notion-query", "notion-create"}}

C27_UnconfiguredUploadIsSkipped ==
    (pc \in {"commit", "exited"} /\ ExportNames \subseteq files
         /\ ~(upload.config.NOTION_TOKEN # "" /\ upload.config.NOTION_DATABASE_ID # "")) =>
        /\ upload.queries = <<>> /\ upload.calls = <<>> /\ NotionRequests = {}
        /\ \A n \in TopNames : TopPath(n) \in DOMAIN outputs
        /\ pc = "exited" => (exitCode = 0 /\ persisted = saveState(state))

C27_Witness ==
    /\ pc = "exited" /\ exitCode = 0
    /\ upload.config.NOTION_TOKEN # "" /\ upload.config.NOTION_DATABASE_ID = ""
    /\ filtered # <<>>

\* C28: within one run at most one create call is made per id; and when a
\* run whose creates all succeeded is followed by a second run over the
\* same listing, the database having kept the pages, the second run makes
\* no create call
C28_UpsertIsIdempotent ==
    /\ \A i, j \in 1..Len(upload.calls) : i # j => upload.calls[i].id # upload.calls[j].id
    /\ (/\ history # <<>>
        /\ history[1].config.NOTION_TOKEN # "" /\ history[1].config.NOTION_DATABASE_ID # ""
        /\ \A i \in 1..Len(history[1].created) : history[1].created[i].outcome = "200")
           => upload.calls = <<>>

\* C29: whatever pages the listing returns, no two records of the
\* normalized list, of the filtered list or of an export file have the
\* same id
UniqueIds(items) == \A i, j \in 1..Len(items) : i # j => items[i].id # items[j].id

C29_IdsAreUnique ==
    /\ UniqueIds(normalized)
    /\ UniqueIds(filtered)
    /\ \A p \in DOMAIN outputs : UniqueIds(outputs[p])

\* C30: a run whose command line has a date bound that does not parse, or
\* a --details argument not of the form classId:assignmentId, launches no
\* credential extractor, issues no HTTP request and does not end with
\* status 0
MalformedDetails ==
    LET details == parseArgs(argv).details IN
    /\ Truthy(details)
    /\ (Len(details) < 2 \/ details[1] = "" \/ details[2] = "")

C30_ValidationStopsBeforeNetwork ==
    (parseArgsExits(argv) \/ MalformedDetails)
        => /\ launches = 0
           /\ requests = <<>>
           /\ pc = "exited" => exitCode # 0

\* C31: the description of every normalized record, of every record of
\* the flat export and of every entry of the remote payload has no markup
\* tag, no white space at either end and at most DescriptionCap characters
HasTag(s) == \E i, j \in 1..Len(s) : i < j /\ s[i] = "<" /\ s[j] = ">"

Trimmed(s) == s = <<>> \/ (s[1] # " " /\ s[Len(s)] # " ")

CleanAndCapped(s) == ~HasTag(s) /\ Trimmed(s) /\ Len(s) <= DescriptionCap

DescribedFiles == {TopPath("assignments.json"), TopPath("notion_payload.json")}

C31_DescriptionIsCleanAndCapped ==
    /\ \A i \in 1..Len(normalized) : CleanAndCapped(normalized[i].description)
    /\ \A p \in DescribedFiles \cap DOMAIN outputs :
          \A i \in 1..Len(outputs[p]) : CleanAndCapped(outputs[p][i].description)

\* C32: no two roster requests of a run are for the same group, whether
\* the first one succeeded or failed, and every normalized record with a
\* group has that group's roster memoized
RosterRequests == {i \in 1..Len(requests) : requests[i].kind = "roster"}

C32_OneRosterRequestPerGroup ==
    /\ \A i, j \in RosterRequests : i # j => requests[i].page # requests[j].page
    /\ \A k \in 1..Len(normalized) :
          normalized[k].classId # 0 =>
              /\ normalized[k].classId \in DOMAIN classMembers
              /\ \E i \in RosterRequests : requests[i].page = normalized[k].classId

\* two records of one group normalized after a roster request that failed
C32_Witness ==
    /\ Len(normalized) = 2
    /\ normalized[1].classId = normalized[2].classId
    /\ Cardinality(RosterRequests) = 1
    /\ \A i \in RosterRequests : requests[i].outcome # "200"

\* C33: a roster request that fails, with whatever status or error, does
\* not end the run: the process exits only after every record has been
\* normalized, and the records of a group whose lookup failed have no
\* teacher and no students
FailedRoster(classId) ==
    \E i \in RosterRequests : requests[i].page = classId /\ requests[i].outcome # "200"

C33_FailedRosterIsNotFatal ==
    /\ pc = "exited" => Len(normalized) = Len(allItems)
    /\ \A k \in 1..Len(normalized) :
          FailedRoster(normalized[k].classId) =>
              /\ normalized[k].teacherName = ""
              /\ normalized[k].teacherEmail = ""
              /\ normalized[k].studentCount = 0

\* a run that reached the upload although the roster request of its first
\* record was refused and that of its second record found no connection
C33_Witness ==
    /\ pc = "upload"
    /\ Len(filtered) = 2
    /\ \E i, j \in RosterRequests :
          /\ requests[i].outcome = "401" /\ requests[i].page = filtered[1].classId
          /\ requests[j].outcome = "neterr" /\ requests[j].page = filtered[2].classId

\* C34: the teacher of a normalized record is the record's creator when
\* the roster of its group has the creator as a teacher, otherwise the
\* first teacher of the roster, otherwise nobody; studentCount is the
\* number of students of the roster
RosterFor(k) ==
    IF normalized[k].classId \in DOMAIN classMembers
    THEN classMembers[normalized[k].classId]
    ELSE EmptyMembers

CreatorIsTeacher(k) ==
    /\ allItems[k].createdBy \in DOMAIN RosterFor(k).byId
    /\ RosterFor(k).byId[allItems[k].createdBy].role = "teacher"

ExpectedTeacher(k) ==
    IF CreatorIsTeacher(k) THEN RosterFor(k).byId[allItems[k].createdBy]
    ELSE IF RosterFor(k).teachers # <<>> THEN RosterFor(k).teachers[1]
    ELSE Person("", "", "", "teacher")

C34_TeacherResolution ==
    \A k \in 1..Len(normalized) :
        /\ normalized[k].teacherName = ExpectedTeacher(k).displayName
        /\ normalized[k].teacherEmail = ExpectedTeacher(k).email
        /\ normalized[k].studentCount = Len(RosterFor(k).students)

\* C35: for every item id, the detail requests of the run are as many as
\* the normalized records of that id whose listing instructions are empty
\* once stripped and trimmed and that have a group id and an item id: one
\* request for each such record, none for any other
DetailRequests == {i \in 1..Len(requests) : requests[i].kind = "detail"}

WantsDetail(k) ==
    /\ trim(stripTags(allItems[k].content)) = <<>>
    /\ allItems[k].classId # 0
    /\ allItems[k].id # 0

C35_DetailRequestIffNeeded ==
    \A id \in {allItems[k].id : k \in 1..Len(allItems)}
                 \cup {requests[i].page : i \in DetailRequests} :
        Cardinality({i \in DetailRequests : requests[i].page = id})
            = Cardinality({k \in 1..Len(normalized) :
                               allItems[k].id = id /\ WantsDetail(k)})

\* two records of one id normalized, the first without instructions and
\* the second with text: one detail request in all
C35_Witness ==
    /\ Len(normalized) = 2
    /\ allItems[1].id = allItems[2].id
    /\ WantsDetail(1) /\ ~WantsDetail(2)
    /\ Cardinality(DetailRequests) = 1

\* the detail request made for record k: the detail requests are in the
\* order of the records that want one
DetailOf(k) ==
    CHOOSE i \in DetailRequests :
        Cardinality({j \in DetailRequests : j <= i})
            = Cardinality({j \in 1..k : WantsDetail(j)})

\* C36 as stated: a detail request answered with instructions that are not
\* empty gives a description that is not empty; a failed one leaves it
\* empty and does not end the run
C36_Original ==
    /\ pc = "exited" => Len(normalized) = Len(allItems)
    /\ \A k \in 1..Len(normalized) :
          WantsDetail(k) =>
              /\ (/\ requests[DetailOf(k)].outcome = "200"
                  /\ DetailContent(allItems[k].id) # <<>>)
                     => normalized[k].description # <<>>
              /\ requests[DetailOf(k)].outcome # "200"
                     => normalized[k].description = <<>>

\* C36: a detail request answered with instructions gives the record the
\* text of those instructions, stripped and trimmed, which is not empty
\* exactly when they hold more than markup and white space; a failed one
\* leaves the description empty and does not end the run
C36_DetailFallbackOutcome ==
    /\ pc = "exited" => Len(normalized) = Len(allItems)
    /\ \A k \in 1..Len(normalized) :
          WantsDetail(k) =>
              /\ requests[DetailOf(k)].outcome = "200"
                     => normalized[k].description
                            = trim(stripTags(DetailContent(allItems[k].id)))
              /\ requests[DetailOf(k)].outcome # "200"
                     => normalized[k].description = <<>>

\* a run that reached the upload with two records that wanted details: the
\* request of the first was answered and gave it a description, that of the
\* second found no connection
C36_Witness ==
    /\ pc = "upload"
    /\ Len(normalized) = 2
    /\ WantsDetail(1) /\ WantsDetail(2)
    /\ requests[DetailOf(1)].outcome = "200" /\ normalized[1].description # <<>>
    /\ requests[DetailOf(2)].outcome = "neterr" /\ normalized[2].description = <<>>

\* the directories of the year and month partitions that were written
PartitionDirs ==
    {[dir |-> p.dir, year |-> p.year, month |-> p.month] :
        p \in {q \in DOMAIN outputs : q.dir # "top"}}

\* the item's due date falls in the year, or the month, of the directory
InPartition(d, item) ==
    /\ item.dueDate # NoDate
    /\ LET first == IF d.dir = "by-year"
                    THEN d.year * MonthsPerYear * MonthLen
                    ELSE (d.year * MonthsPerYear + d.month) * MonthLen
           length == IF d.dir = "by-year" THEN MonthsPerYear * MonthLen ELSE MonthLen
       IN  first <= item.dueDate /\ item.dueDate < first + length

\* the partition directory d has the file n, holding the records of the
\* top-level file n that fall in the partition
PartitionHas(d, n) ==
    /\ Path(d.dir, d.year, d.month, n) \in DOMAIN outputs
    /\ outputs[Path(d.dir, d.year, d.month, n)]
           = SelectSeq(outputs[TopPath(n)], LAMBDA item : InPartition(d, item))

FailedBefore ==
    IF history = <<>> THEN {}
    ELSE {history[1].created[i].id :
             i \in {j \in 1..Len(history[1].created) :
                        history[1].created[j].outcome # "200"}}

C38_CommitIgnoresUploadOutcome ==
    /\ (pc = "exited" /\ exitCode = 0)
           => ToSet(Ids(filtered)) \subseteq ToSet(persisted.content.seenIds)
    /\ Args.incremental =>
          /\ \A i \in 1..Len(filtered) : filtered[i].id \notin FailedBefore
          /\ \A i \in 1..Len(upload.calls) : upload.calls[i].id \notin FailedBefore

\* an incremental run has completed after a run in which the create of
\* item 2 failed: item 2 is in the listing and not in the database
C38_Witness ==
    /\ pc = "exited" /\ exitCode = 0
    /\ Args.incremental
    /\ 2 \in FailedBefore
    /\ \E k \in 1..Len(normalized) : normalized[k].id = 2
    /\ \A i \in 1..Len(remote) : 2 \notin ToSet(remote[i])
    /\ upload.queries # <<>>

\* C39: every run ends with a process exit; the extractor is launched at
\* most once, and after a listing request or a database query that failed
\* no further request of that kind is sent
NoRequestAfterFailure(kind) ==
    \A i, j \in 1..Len(requests) :
        (/\ i < j
         /\ requests[i].kind = kind
         /\ requests[i].outcome # "200") => requests[j].kind # kind

C39_Termination ==
    /\ <>(pc = "exited")
    /\ [](/\ launches <= 1
          /\ NoRequestAfterFailure("listing")
          /\ NoRequestAfterFailure("notion-query"))

\* a run that launched the extractor, read two listing pages and two
\* database pages, and completed
C39_Witness ==
    /\ pc = "exited" /\ exitCode = 0
    /\ launches = 1
    /\ Cardinality({i \in 1..Len(requests) : requests[i].kind = "listing"}) = 2
    /\ Cardinality({i \in 1..Len(requests) : requests[i].kind = "notion-query"}) = 2

\* C40: an item due later than the --due-before bound, or earlier than
\* the --due-after bound, is never in the filter output; when no other test
\* is active, every other item is: one due at the bound, one due on the
\* allowed side of it, one with no due date
OnlyDateTests ==
    /\ Args.statuses = <<>> /\ Args.classIds = <<>>
    /\ ~Args.incomplete /\ ~Args.overdue /\ ~Args.incremental

LaterThanBound(item) ==
    Args.dueBefore # NoDate /\ item.dueDate # NoDate /\ item.dueDate > Args.dueBefore

EarlierThanBound(item) ==
    Args.dueAfter # NoDate /\ item.dueDate # NoDate /\ item.dueDate < Args.dueAfter

C40_DueDateBounds ==
    pc = "filtered" =>
        \A i \in 1..Len(normalized) :
            /\ (LaterThanBound(normalized[i]) \/ EarlierThanBound(normalized[i]))
                   => normalized[i] \notin ToSet(filtered)
            /\ (/\ OnlyDateTests
                /\ ~LaterThanBound(normalized[i])
                /\ ~EarlierThanBound(normalized[i]))
                   => normalized[i] \in ToSet(filtered)

\* both bounds given and nothing else: an item due at the bounds was kept
\* and an item due later was left out
C40_Witness ==
    /\ pc = "filtered" /\ OnlyDateTests
    /\ Args.dueBefore # NoDate /\ Args.dueAfter = Args.dueBefore
    /\ Len(normalized) = 2 /\ Len(filtered) = 1
    /\ filtered[1].dueDate = Args.dueBefore
    /\ \E i \in 1..Len(normalized) : LaterThanBound(normalized[i])

====
